---- MODULE Spec2Model ----
(***************************************************************************)
(* Bulk CSV import of the Contour ERP backend: the validate / execute      *)
(* handlers of the customers, parts and resources routes, the generic      *)
(* import service, and the in-memory rate limiter.                         *)
(*                                                                         *)
(* The record store and the clock are the environment: the store is a      *)
(* collection of tables holding records, an insert may succeed, return no  *)
(* data, or raise; the clock only moves forward.                           *)
(***************************************************************************)
EXTENDS Integers, Sequences, FiniteSets, TLC

VARIABLES
    impl,       \* which handler family serves the request
    req,        \* the request payload (company_id, mappings, rows, options)
    store,      \* the record store: table name -> sequence of records
    pc,         \* position of the client: "start", "validated", "done"
    vresp,      \* response of the last validate call
    eresp,      \* response of the last execute call
    writes,     \* store write calls issued by the last execute, in order
    nextId,     \* id generator of the store
    rl,         \* which RateLimiter class is instantiated
    requests,   \* RateLimiter.requests : key -> list of admitted timestamps
    now,        \* the clock read by RateLimiter.check
    admitted,   \* history: key -> every timestamp at which check returned True
    lastCheck,  \* key, time and result of the last check call
    threads,    \* the threads inside RateLimiter.check: position and locals
    lock,       \* RateLimiter.lock: the thread that holds it, if any
    env,        \* deployment: cache switch, API keys, ai_config rows
    cache,      \* the analyze cache: the files under .cache/ai_responses
    areq,       \* the request of the last analyze call
    aresp,      \* the response of the last analyze call
    trace,      \* what the last analyze call did, step by step
    acount,     \* number of analyze calls made so far
    call,       \* a call of a function of the classifier: name and arguments
    ret         \* the value that call returned

vars == <<impl, req, store, pc, vresp, eresp, writes, nextId,
          rl, requests, now, admitted, lastCheck, threads, lock,
          env, cache, areq, aresp, trace, acount, call, ret>>

pipeVars == <<impl, req, store, pc, vresp, eresp, writes, nextId>>
rlVars == <<rl, requests, now, admitted, lastCheck, threads, lock>>
anVars == <<env, cache, areq, aresp, trace, acount, call, ret>>

----------------------------------------------------------------------------
(* Bounds of the model *)

MaxRows == 3            \* rows in one validate request
MaxExecRows == 2        \* rows in one execute request
MaxRequests == 2        \* RateLimiter(max_requests=...)
WindowSeconds == 2      \* RateLimiter(window_seconds=...)
MaxTime == 4            \* the clock stops here

None == "None"

----------------------------------------------------------------------------
(* Strings.  str.strip() and str.lower() on the strings of the model. *)

Strip(s) ==
    CASE s = " A1" -> "A1"
      [] s = " P1" -> "P1"
      [] s = " Mill" -> "Mill"
      [] s = " " -> ""
      [] OTHER -> s

Lower(s) ==
    CASE s = "A1" -> "a1"
      [] s = "P1" -> "p1"
      [] s = "Y" -> "y"
      [] s = "C1" -> "c1"
      [] s = "Mill" -> "mill"
      [] s = "CNC" -> "cnc"
      [] s = "Cnc" -> "cnc"
      [] s = "Zed" -> "zed"
      [] OTHER -> s

\* "sub in text" for the strings of the model: the markers the handlers look
\* for in a store error text, and a text inside itself
Contains(text, sub) ==
    CASE sub = "23505" ->
            text \in {"23505 unique_violation customers_customer_code_key"}
      [] sub = "duplicate key" ->
            text \in {"duplicate key value violates constraint customers_name_key"}
      [] sub = "customer_code" ->
            text \in {"23505 unique_violation customers_customer_code_key"}
      [] sub = "name" ->
            text \in {"duplicate key value violates constraint customers_name_key"}
      [] OTHER -> text = sub

----------------------------------------------------------------------------
(* Sequence helpers *)

Range(s) == {s[i] : i \in DOMAIN s}

Indices(s) == [i \in 1..Len(s) |-> i]

\* the element of a set of one element: Only({F(x) : x \in {e}}) is F(e)
\* with e evaluated once, before F is
Only(S) == CHOOSE x \in S : TRUE

\* concatenation of f[1] \o ... \o f[n]
RECURSIVE ConcatUpTo(_, _)
ConcatUpTo(f, n) == IF n = 0 THEN <<>> ELSE ConcatUpTo(f, n - 1) \o f[n]

----------------------------------------------------------------------------
(* The record store *)

\* variant: the select is not filtered on the company
SelectEveryCompany(st, table, company_id) == st[table]

\* supabase.table(t).select(...).eq("company_id", c).execute().data
SelectByCompany(st, table, company_id) ==
    SelectSeq(st[table], LAMBDA r : r.company_id = company_id)

\* ids generated by the store for inserted records
NewIds == <<"n1", "n2", "n3", "n4", "n5", "n6", "n7", "n8", "n9", "n10", "n11", "n12">>

\* the inserted records as the store returns them, with generated ids
WithIds(records, first) ==
    [k \in 1..Len(records) |-> records[k] @@ ("id" :> NewIds[first + k - 1])]

\* what one insert(...).execute() call can do: insert and return the rows,
\* insert and return no data, or raise with an error text
ErrorTexts ==
    {"23505 unique_violation customers_customer_code_key",
     "duplicate key value violates constraint customers_name_key",
     "connection reset by peer"}

InsertOutcomes ==
    {[kind |-> "ok", text |-> ""], [kind |-> "nodata", text |-> ""]}
        \cup {[kind |-> "raise", text |-> t] : t \in ErrorTexts}

----------------------------------------------------------------------------
(* Requests *)

\* row.get(col, "")
RowGet(row, col) == IF col \in DOMAIN row THEN row[col] ELSE ""

\* {v: k for k, v in mappings.items()}.get(field): the last CSV column
\* mapped to the field
RECURSIVE ReverseLookup(_, _, _)
ReverseLookup(mappings, field, n) ==
    IF n = 0 THEN None
    ELSE IF mappings[n][2] = field THEN mappings[n][1]
    ELSE ReverseLookup(mappings, field, n - 1)

ReverseGet(mappings, field) == ReverseLookup(mappings, field, Len(mappings))

\* {v: k for k, v in mappings.items() if v}.get(field)
ReverseGetNonEmpty(mappings, field) ==
    IF field = "" THEN None ELSE ReverseGet(mappings, field)

----------------------------------------------------------------------------
(* Customers route: routes/import_routes.py *)

\* row.get(column, "").strip() if column else ""
CellOf(row, column) == IF column = None THEN "" ELSE Strip(RowGet(row, column))

\* occurrences[key]: the 1-indexed numbers of the rows whose non-blank
\* stripped value of the column lower-cases to key, ascending
OccurrencesOf(rows, column, key) ==
    SelectSeq(Indices(rows),
              LAMBDA r : CellOf(rows[r], column) # ""
                         /\ Lower(CellOf(rows[r], column)) = key)

\* key in {k: v for k, v in occurrences.items() if len(v) > 1}
InDuplicates(rows, column, key) == Len(OccurrencesOf(rows, column, key)) > 1

\* variant: only the later rows of the file are listed
OtherRowsLaterOnly(rows, column, key, row_number) ==
    SelectSeq(OccurrencesOf(rows, column, key), LAMBDA r : r > row_number)

\* [r for r in duplicates[key] if r != row_number]
OtherRows(rows, column, key, row_number) ==
    SelectSeq(OccurrencesOf(rows, column, key), LAMBDA r : r # row_number)

\* {c[field].lower(): c for c in existing}: the records filed under key, in
\* the order they were assigned; the dict keeps the last one
ExistingMatches(existing, field, key) ==
    SelectSeq(existing, LAMBDA c : Lower(c[field]) = key)

InExisting(existing, field, key) == Len(ExistingMatches(existing, field, key)) > 0

ExistingBy(existing, field, key) ==
    ExistingMatches(existing, field, key)[Len(ExistingMatches(existing, field, key))]

\* customer_data.get(db_field): the stripped value, dropped when blank or
\* the literal "undefined"
CustomerData(row, mappings, db_field) ==
    LET csv_column == ReverseGet(mappings, db_field) IN
    IF csv_column # None /\ csv_column \in DOMAIN row
    THEN LET value == Strip(row[csv_column]) IN
         IF value # "" /\ Lower(value) # "undefined" THEN value ELSE None
    ELSE None

\* the required-field pass for one row: at most one ValidationError
CustomerRowErrors(row, mappings, row_number) ==
    IF CustomerData(row, mappings, "customer_code") = None
    THEN <<[row_number |-> row_number, error_type |-> "missing_customer_code",
            field |-> "customer_code"]>>
    ELSE IF CustomerData(row, mappings, "name") = None
    THEN <<[row_number |-> row_number, error_type |-> "missing_name",
            field |-> "name"]>>
    ELSE <<>>

CustomerConflict(row_number, csv_code, csv_name, type, id, value) ==
    [row_number |-> row_number, csv_customer_code |-> csv_code,
     csv_name |-> csv_name, conflict_type |-> type,
     existing_customer_id |-> id, existing_value |-> value]

\* the second pass for one row: the first matching check ends the row
CustomerRowConflicts(rows, mappings, existing, error_rows, row_number) ==
    LET code_column == ReverseGet(mappings, "customer_code")
        name_column == ReverseGet(mappings, "name")
        csv_code == CellOf(rows[row_number], code_column)
        csv_name == CellOf(rows[row_number], name_column)
    IN
    IF row_number \in error_rows THEN <<>>
    ELSE IF csv_code # "" /\ InDuplicates(rows, code_column, Lower(csv_code))
    THEN <<CustomerConflict(row_number, csv_code, csv_name, "csv_duplicate_code", "",
               OtherRows(rows, code_column, Lower(csv_code), row_number))>>
    ELSE IF csv_name # "" /\ InDuplicates(rows, name_column, Lower(csv_name))
    THEN <<CustomerConflict(row_number, csv_code, csv_name, "csv_duplicate_name", "",
               OtherRows(rows, name_column, Lower(csv_name), row_number))>>
    ELSE IF csv_code # "" /\ InExisting(existing, "customer_code", Lower(csv_code))
    THEN <<CustomerConflict(row_number, csv_code, csv_name, "duplicate_code",
               ExistingBy(existing, "customer_code", Lower(csv_code)).id,
               ExistingBy(existing, "customer_code", Lower(csv_code)).customer_code)>>
    ELSE IF csv_name # "" /\ InExisting(existing, "name", Lower(csv_name))
    THEN <<CustomerConflict(row_number, csv_code, csv_name, "duplicate_name",
               ExistingBy(existing, "name", Lower(csv_name)).id,
               ExistingBy(existing, "name", Lower(csv_name)).name)>>
    ELSE <<>>

\* variant: the skipped count leaves the errored rows out
ValidateResponseMiscounted(rows, conflicts, validation_errors, conflict_rows, error_rows) ==
    [has_conflicts |-> Len(conflicts) > 0,
     conflicts |-> conflicts,
     validation_errors |-> validation_errors,
     valid_rows_count |-> Len(rows) - Cardinality(conflict_rows \cup error_rows),
     conflict_rows_count |-> Cardinality(conflict_rows),
     error_rows_count |-> Cardinality(error_rows),
     skipped_rows_count |-> Cardinality(conflict_rows)]

\* variant: has_conflicts is also set by a validation error
ValidateResponseErrorsGate(rows, conflicts, validation_errors, conflict_rows, error_rows) ==
    [has_conflicts |-> Len(conflicts) > 0 \/ Len(validation_errors) > 0,
     conflicts |-> conflicts,
     validation_errors |-> validation_errors,
     valid_rows_count |-> Len(rows) - Cardinality(conflict_rows \cup error_rows),
     conflict_rows_count |-> Cardinality(conflict_rows),
     error_rows_count |-> Cardinality(error_rows),
     skipped_rows_count |-> Cardinality(conflict_rows \cup error_rows)]

\* the counts and the response, shared shape of every validate
ValidateResponse(rows, conflicts, validation_errors, conflict_rows, error_rows) ==
    [has_conflicts |-> Len(conflicts) > 0,
     conflicts |-> conflicts,
     validation_errors |-> validation_errors,
     valid_rows_count |-> Len(rows) - Cardinality(conflict_rows \cup error_rows),
     conflict_rows_count |-> Cardinality(conflict_rows),
     error_rows_count |-> Cardinality(error_rows),
     skipped_rows_count |-> Cardinality(conflict_rows \cup error_rows)]

\* POST /api/customers/import/validate
CustomersValidate(r, st) ==
    LET existing == SelectByCompany(st, "customers", r.company_id)
        errs == [i \in 1..Len(r.rows) |-> CustomerRowErrors(r.rows[i], r.mappings, i)]
        validation_error_row_set == {i \in 1..Len(r.rows) : Len(errs[i]) > 0}
        cons == [i \in 1..Len(r.rows) |->
                    CustomerRowConflicts(r.rows, r.mappings, existing,
                                         validation_error_row_set, i)]
        conflict_row_set == {i \in 1..Len(r.rows) : Len(cons[i]) > 0}
    IN ValidateResponse(r.rows, ConcatUpTo(cons, Len(r.rows)),
                        ConcatUpTo(errs, Len(r.rows)),
                        conflict_row_set, validation_error_row_set)

\* the record built for one row that is not skipped
CustomerRecord(r, row) ==
    LET mapped == {f \in {"customer_code", "name"} : CustomerData(row, r.mappings, f) # None}
    IN ("company_id" :> r.company_id)
       @@ [f \in mapped |-> CustomerData(row, r.mappings, f)]
       @@ ("country" :> "USA")

\* response of a handler: an HTTP error, or a 200 with a body
HttpError(status, detail) == [status |-> status, detail |-> detail]
HttpOk(body) == [status |-> 200, body |-> body]

\* result of a handler call:  the response, the write calls it issued and
\* the store it leaves behind
Result(response, calls, st, ids) ==
    [response |-> response, writes |-> calls, store |-> st, nextId |-> ids]

\* insert(records).execute() under the given outcome
InsertInto(st, table, records, ids, outcome) ==
    IF outcome.kind = "raise" THEN st
    ELSE [st EXCEPT ![table] = @ \o WithIds(records, ids)]

\* len(response.data) if response.data else 0
ReturnedCount(records, outcome) ==
    IF outcome.kind = "ok" THEN Len(records) ELSE 0

\* variant: the skip set is built from the conflicts alone
SkipRowNumbersConflictsOnly(validate_response) ==
    {validate_response.conflicts[k].row_number : k \in DOMAIN validate_response.conflicts}

\* skip_row_numbers of every execute
SkipRowNumbers(validate_response) ==
    {validate_response.conflicts[k].row_number : k \in DOMAIN validate_response.conflicts}
        \cup {validate_response.validation_errors[k].row_number :
                 k \in DOMAIN validate_response.validation_errors}

\* the loop over the rows: the row numbers that get a record, in order
RowsKept(rows, skip_row_numbers) ==
    SelectSeq(Indices(rows), LAMBDA n : n \notin skip_row_numbers)

ExecuteBody(imported_count, skipped) ==
    [success |-> TRUE, imported_count |-> imported_count,
     skipped_count |-> skipped, errors |-> <<>>]

ConflictsDetail ==
    "Conflicts detected. Set skip_conflicts=true to import non-conflicting rows only."

\* variant: the 500 answer carries the text of the store error
CustomersInsertErrorEchoed(error_str) ==
    IF Contains(error_str, "23505") \/ Contains(Lower(error_str), "duplicate key")
    THEN HttpError(400, "Import failed: Duplicate values detected. Please ensure all customer codes and names are unique.")
    ELSE HttpError(500, error_str)

\* the except branch around the customers bulk insert
CustomersInsertError(error_str) ==
    IF Contains(error_str, "23505") \/ Contains(Lower(error_str), "duplicate key")
    THEN IF Contains(Lower(error_str), "customer_code")
         THEN HttpError(400, "Import failed: A customer with this code already exists. Please check your CSV for duplicate customer codes.")
         ELSE IF Contains(Lower(error_str), "name")
         THEN HttpError(400, "Import failed: A customer with this name already exists. Please check your CSV for duplicate company names.")
         ELSE HttpError(400, "Import failed: Duplicate values detected. Please ensure all customer codes and names are unique.")
    ELSE HttpError(500, "Database error occurred during import. Please try again or contact support if the problem persists.")

\* POST /api/customers/import/execute
CustomersExecute(r, st, ids, outcome) ==
    LET validate_response == CustomersValidate(r, st)
        skip_row_numbers == SkipRowNumbers(validate_response)
        kept == RowsKept(r.rows, skip_row_numbers)
        rows_to_insert == [k \in 1..Len(kept) |-> CustomerRecord(r, r.rows[kept[k]])]
        skipped == Len(r.rows) - Len(kept)
    IN
    IF validate_response.has_conflicts /\ ~r.skip_conflicts
    THEN Result(HttpError(400, ConflictsDetail), <<>>, st, ids)
    ELSE IF Len(rows_to_insert) = 0
    THEN Result(HttpOk(ExecuteBody(0, skipped)), <<>>, st, ids)
    ELSE Result(IF outcome.kind = "raise" THEN CustomersInsertError(outcome.text)
                ELSE HttpOk(ExecuteBody(ReturnedCount(rows_to_insert, outcome), skipped)),
                <<[table |-> "customers", records |-> rows_to_insert,
                  outcome |-> outcome]>>,
                InsertInto(st, "customers", rows_to_insert, ids, outcome),
                IF outcome.kind = "raise" THEN ids ELSE ids + Len(rows_to_insert))

----------------------------------------------------------------------------
(* Numbers.  float(s) on the strings of the model: whether it parses, and  *)
(* the value in cents when it does (round(x, 2) keeps two decimals)        *)

FloatParses(s) == s \in {"5", "-1", "0", "10", "2.5", "100.0"}

FloatCents(s) ==
    CASE s = "5" -> 500
      [] s = "-1" -> 0 - 100
      [] s = "0" -> 0
      [] s = "10" -> 1000
      [] s = "2.5" -> 250
      [] s = "100.0" -> 10000

----------------------------------------------------------------------------
(* Generic import service: services/import_framework/service.py, run with *)
(* the customers configuration of modules/customers.py                    *)

CUSTOMERS_CONFIG ==
    [module_name |-> "customers",
     table_name |-> "customers",
     schema |-> <<[name |-> "customer_code", type |-> "string", required |-> TRUE],
                  [name |-> "name", type |-> "string", required |-> TRUE],
                  [name |-> "country", type |-> "string", required |-> FALSE]>>,
     unique_fields |-> <<"customer_code", "name">>,
     default_values |-> <<<<"country", "USA">>>>,
     column_pair_config |-> FALSE,
     pre_insert_transform |-> FALSE,
     company_id_field |-> "company_id"]

\* ImportModuleConfig.get_required_fields
GetRequiredFields(config) ==
    LET required == SelectSeq(config.schema, LAMBDA d : d.required)
    IN [k \in 1..Len(required) |-> required[k].name]

\* f"missing_{field}" and f"duplicate_{field}"
MissingType(field) ==
    CASE field = "customer_code" -> "missing_customer_code"
      [] field = "name" -> "missing_name"
      [] field = "part_number" -> "missing_part_number"

DuplicateType(field) ==
    CASE field = "customer_code" -> "duplicate_customer_code"
      [] field = "name" -> "duplicate_name"
      [] field = "part_number" -> "duplicate_part_number"

\* row.get(csv_col, "").strip().lower() for the column mapped to the field
GenericValue(row, mappings, field) ==
    Lower(CellOf(row, ReverseGetNonEmpty(mappings, field)))

\* _fetch_existing_records(...)[field]: the records of the company with a
\* value for the field, filed under its lower-cased value
GenericExistingMatches(existing, field, key) ==
    SelectSeq(existing, LAMBDA c : c[field] # "" /\ Lower(c[field]) = key)

\* the required-field loop of one row: one error for each blank required
\* field; its continue only moves on to the next required field
GenericRowErrors(config, row, mappings, row_number) ==
    LET required == GetRequiredFields(config)
        errs == [k \in 1..Len(required) |->
                    IF CellOf(row, ReverseGetNonEmpty(mappings, required[k])) = ""
                    THEN <<[row_number |-> row_number,
                            error_type |-> MissingType(required[k]),
                            field |-> required[k]]>>
                    ELSE <<>>]
    IN ConcatUpTo(errs, Len(required))

\* the CSV-duplicate loop of one row, over every unique field
GenericRowCsvConflicts(config, rows, mappings, row_number) ==
    LET unique == config.unique_fields
        cons == [k \in 1..Len(unique) |->
                    LET csv_col == ReverseGetNonEmpty(mappings, unique[k])
                        value == GenericValue(rows[row_number], mappings, unique[k])
                    IN IF csv_col # None
                          /\ InDuplicates(rows, csv_col, value)
                          /\ Len(OtherRows(rows, csv_col, value, row_number)) > 0
                       THEN <<[row_number |-> row_number,
                               conflict_type |-> "csv_duplicate",
                               field |-> unique[k],
                               value |-> value,
                               message |-> OtherRows(rows, csv_col, value, row_number)]>>
                       ELSE <<>>]
    IN ConcatUpTo(cons, Len(unique))

\* the database-conflict loop of one row, over every unique field
GenericRowDbConflicts(config, rows, mappings, existing, row_number) ==
    LET unique == config.unique_fields
        cons == [k \in 1..Len(unique) |->
                    LET csv_col == ReverseGetNonEmpty(mappings, unique[k])
                        value == GenericValue(rows[row_number], mappings, unique[k])
                        found == GenericExistingMatches(existing, unique[k], value)
                    IN IF csv_col # None /\ value # "" /\ Len(found) > 0
                       THEN <<[row_number |-> row_number,
                               conflict_type |-> DuplicateType(unique[k]),
                               field |-> unique[k],
                               value |-> value,
                               existing_id |-> found[Len(found)].id]>>
                       ELSE <<>>]
    IN ConcatUpTo(cons, Len(unique))

\* the select of the store raises for this client
StoreReadFails(st) == "read_fails" \in DOMAIN st

\* variant: the records are returned although the select raises
FetchExistingRecordsAnyway(config, r, st) ==
    SelectByCompany(st, config.table_name, r.company_id)

\* _fetch_existing_records: `except Exception: pass` leaves the lookups empty
FetchExistingRecords(config, r, st) ==
    IF StoreReadFails(st) THEN <<>>
    ELSE SelectByCompany(st, config.table_name, r.company_id)

\* GenericImportService.validate
GenericValidate(config, r, st) ==
    LET existing == FetchExistingRecords(config, r, st)
        n == Len(r.rows)
        errs == [i \in 1..n |-> GenericRowErrors(config, r.rows[i], r.mappings, i)]
        cons == [i \in 1..n |->
                    GenericRowCsvConflicts(config, r.rows, r.mappings, i)
                    \o GenericRowDbConflicts(config, r.rows, r.mappings, existing, i)]
        validation_error_rows == {i \in 1..n : Len(errs[i]) > 0}
        conflict_rows == {i \in 1..n : Len(cons[i]) > 0}
    IN ValidateResponse(r.rows, ConcatUpTo(cons, n), ConcatUpTo(errs, n),
                        conflict_rows, validation_error_rows)

\* the loop over the schema of one row: the mapped non-blank value of each
\* field; no configuration defines a field transform, a number is
\* round(float(value), 2) and the field is left out when float raises
RECURSIVE GenericMapFields(_, _, _, _, _)
GenericMapFields(config, row, mappings, record, k) ==
    IF k > Len(config.schema) THEN record
    ELSE LET field_name == config.schema[k].name
             csv_col == ReverseGetNonEmpty(mappings, field_name)
             value == IF csv_col # None /\ csv_col \in DOMAIN row
                      THEN Strip(row[csv_col]) ELSE ""
         IN GenericMapFields(config, row, mappings,
                IF value = "" THEN record
                ELSE IF config.schema[k].type # "number"
                THEN (field_name :> value) @@ record
                ELSE IF FloatParses(value)
                THEN (field_name :> FloatCents(value)) @@ record
                ELSE record,
                k + 1)

\* variant: a default is applied whether or not the record has the field
RECURSIVE GenericApplyDefaultsOverwriting(_, _, _)
GenericApplyDefaultsOverwriting(config, record, k) ==
    IF k > Len(config.default_values) THEN record
    ELSE GenericApplyDefaultsOverwriting(config,
            (config.default_values[k][1] :> config.default_values[k][2]) @@ record,
            k + 1)

\* the loop over default_values: a default only for a field not in the record
RECURSIVE GenericApplyDefaults(_, _, _)
GenericApplyDefaults(config, record, k) ==
    IF k > Len(config.default_values) THEN record
    ELSE GenericApplyDefaults(config,
            IF config.default_values[k][1] \notin DOMAIN record
            THEN record @@ (config.default_values[k][1] :> config.default_values[k][2])
            ELSE record,
            k + 1)

----------------------------------------------------------------------------
(* Resources route: routes/resources_import_routes.py *)

\* sorted(...) on the group names of the model: code point order
StrRank(s) ==
    CASE s = "CNC" -> 1
      [] s = "EDM" -> 2
      [] s = "cnc" -> 3
      [] OTHER -> 4

RECURSIVE SortedStrings(_)
SortedStrings(S) ==
    IF S = {} THEN <<>>
    ELSE LET least == CHOOSE x \in S : \A y \in S : StrRank(x) <= StrRank(y)
         IN <<least>> \o SortedStrings(S \ {least})

ResourceConflict(row_number, name, resource_group, type, id, value) ==
    [row_number |-> row_number, csv_name |-> name,
     csv_resource_group |-> resource_group, conflict_type |-> type,
     existing_resource_id |-> id, existing_value |-> value]

\* the second pass for one row: what it appends and whether the row reaches
\* the group tracking at the end of the loop body
ResourceRow(r, existing_resources, row_number) ==
    LET reverse(f) == ReverseGet(r.mappings, f)
        row == r.rows[row_number]
        name == CellOf(row, reverse("name"))
        resource_group == CellOf(row, reverse("resource_group"))
        labor_rate_str == CellOf(row, reverse("labor_rate"))
        name_key == Lower(name)
        clean == [errors |-> <<>>, conflicts |-> <<>>, passed |-> FALSE]
    IN
    IF name = ""
    THEN [clean EXCEPT !.errors =
            <<[row_number |-> row_number, error_type |-> "missing_name",
               field |-> "name"]>>]
    ELSE IF InDuplicates(r.rows, reverse("name"), name_key)
            /\ Len(OtherRows(r.rows, reverse("name"), name_key, row_number)) > 0
    THEN [clean EXCEPT !.conflicts =
            <<ResourceConflict(row_number, name, resource_group, "csv_duplicate", "",
                  OtherRows(r.rows, reverse("name"), name_key, row_number))>>]
    ELSE IF InExisting(existing_resources, "name", name_key)
    THEN [clean EXCEPT !.conflicts =
            <<ResourceConflict(row_number, name, resource_group, "duplicate_name",
                  ExistingBy(existing_resources, "name", name_key).id, name)>>]
    ELSE IF reverse("labor_rate") # None /\ labor_rate_str # ""
            /\ (~FloatParses(labor_rate_str) \/ FloatCents(labor_rate_str) < 0)
    THEN [clean EXCEPT !.errors =
            <<[row_number |-> row_number, error_type |-> "invalid_rate",
               field |-> "labor_rate"]>>]
    ELSE [clean EXCEPT !.passed = TRUE]

\* POST /api/resources/import/validate
ResourcesValidate(r, st) ==
    LET existing_resources == SelectByCompany(st, "resources", r.company_id)
        existing_groups == SelectByCompany(st, "resource_groups", r.company_id)
        existing_group_names == {Lower(existing_groups[k].name) : k \in DOMAIN existing_groups}
        n == Len(r.rows)
        per == [i \in 1..n |-> ResourceRow(r, existing_resources, i)]
        errs == [i \in 1..n |-> per[i].errors]
        cons == [i \in 1..n |-> per[i].conflicts]
        group_of(i) == CellOf(r.rows[i], ReverseGet(r.mappings, "resource_group"))
        groups_to_create ==
            {group_of(i) : i \in {j \in 1..n : /\ per[j].passed
                                                /\ group_of(j) # ""
                                                /\ r.create_groups
                                                /\ Lower(group_of(j)) \notin existing_group_names}}
    IN ValidateResponse(r.rows, ConcatUpTo(cons, n), ConcatUpTo(errs, n),
                        {i \in 1..n : Len(cons[i]) > 0}, {i \in 1..n : Len(errs[i]) > 0})
       @@ [groups_to_create |-> SortedStrings(groups_to_create)]

\* the group creation loop: group k is inserted unless its insert raises
\* (group_outcomes[k] = "raise"); returns the groups table afterwards
RECURSIVE CreateGroups(_, _, _, _, _, _)
CreateGroups(company_id, names, group_outcomes, table, ids, k) ==
    IF k > Len(names) THEN [table |-> table, nextId |-> ids]
    ELSE IF group_outcomes[k] = "raise"
    THEN CreateGroups(company_id, names, group_outcomes, table, ids, k + 1)
    ELSE CreateGroups(company_id, names, group_outcomes,
            Append(table, ("id" :> NewIds[ids]) @@ ("company_id" :> company_id)
                          @@ ("name" :> names[k]) @@ ("display_order" :> 0)),
            ids + 1, k + 1)

\* the insert calls the loop issues, one for each queued group
GroupWrites(company_id, names, group_outcomes) ==
    [k \in 1..Len(names) |->
        [table |-> "resource_groups",
         records |-> <<("company_id" :> company_id) @@ ("name" :> names[k])
                       @@ ("display_order" :> 0)>>,
         outcome |-> [kind |-> group_outcomes[k], text |-> ""]]]

\* group_name_to_id.get(key) after the creation loop and the re-read of the
\* groups of the company: the last group filed under the key
GroupIdFor(groups, key) ==
    LET found == SelectSeq(groups, LAMBDA g : Lower(g.name) = key)
    IN IF Len(found) = 0 THEN None ELSE found[Len(found)].id

\* the record built for one row that is not skipped
ResourceRecord(r, row, groups) ==
    LET reverse(f) == ReverseGet(r.mappings, f)
        plain == {f \in {"name", "code", "description"} :
                     /\ reverse(f) # None /\ reverse(f) \in DOMAIN row
                     /\ Strip(row[reverse(f)]) # ""
                     /\ Lower(Strip(row[reverse(f)])) # "undefined"}
        rate == IF reverse("labor_rate") # None /\ reverse("labor_rate") \in DOMAIN row
                THEN Strip(row[reverse("labor_rate")]) ELSE ""
        group_name == IF reverse("resource_group") # None
                         /\ reverse("resource_group") \in DOMAIN row
                      THEN Strip(row[reverse("resource_group")]) ELSE ""
        group_id == IF group_name = "" THEN None ELSE GroupIdFor(groups, Lower(group_name))
    IN ("company_id" :> r.company_id) @@ ("metadata" :> <<>>)
       @@ [f \in plain |-> Strip(row[reverse(f)])]
       @@ (IF rate # "" /\ FloatParses(rate)
           THEN ("labor_rate" :> FloatCents(rate)) ELSE <<>>)
       @@ (IF group_id # None THEN ("resource_group_id" :> group_id) ELSE <<>>)

\* the except branch around the resources bulk insert
ResourcesInsertError(error_str) ==
    IF Contains(error_str, "23505") \/ Contains(Lower(error_str), "duplicate key")
    THEN HttpError(400, "Import failed: A resource with this name already exists. Please check your CSV for duplicate names.")
    ELSE HttpError(500, "Database error occurred during import. Please try again.")

\* variant: the groups are created before the conflict gate is looked at
ResourcesExecuteGroupsFirst(r, st, ids, outcome, group_outcomes) ==
    LET validate_response == ResourcesValidate(r, st)
        names == IF r.create_groups THEN validate_response.groups_to_create ELSE <<>>
        created == CreateGroups(r.company_id, names, group_outcomes,
                                st.resource_groups, ids, 1)
    IN Result(HttpError(400, ConflictsDetail),
              GroupWrites(r.company_id, names, group_outcomes),
              [st EXCEPT !.resource_groups = created.table], created.nextId)

\* POST /api/resources/import/execute
ResourcesExecute(r, st, ids, outcome, group_outcomes) ==
    LET validate_response == ResourcesValidate(r, st)
        skip_row_numbers == SkipRowNumbers(validate_response)
        names == IF r.create_groups THEN validate_response.groups_to_create ELSE <<>>
        created == CreateGroups(r.company_id, names, group_outcomes,
                                st.resource_groups, ids, 1)
        st_groups == [st EXCEPT !.resource_groups = created.table]
        groups == SelectByCompany(st_groups, "resource_groups", r.company_id)
        kept == RowsKept(r.rows, skip_row_numbers)
        rows_to_insert == [k \in 1..Len(kept) |-> ResourceRecord(r, r.rows[kept[k]], groups)]
        skipped == Len(r.rows) - Len(kept)
        group_calls == GroupWrites(r.company_id, names, group_outcomes)
        groups_created == created.nextId - ids
    IN
    IF validate_response.has_conflicts /\ ~r.skip_conflicts
    THEN Result(HttpError(400, ConflictsDetail), <<>>, st, ids)
    ELSE IF Len(rows_to_insert) = 0
    THEN Result(HttpOk(ExecuteBody(0, skipped) @@ [groups_created |-> groups_created]),
                group_calls, st_groups, created.nextId)
    ELSE Result(IF outcome.kind = "raise" THEN ResourcesInsertError(outcome.text)
                ELSE HttpOk(ExecuteBody(ReturnedCount(rows_to_insert, outcome), skipped)
                            @@ [groups_created |-> groups_created]),
                group_calls \o <<[table |-> "resources", records |-> rows_to_insert,
                                  outcome |-> outcome]>>,
                InsertInto(st_groups, "resources", rows_to_insert, created.nextId, outcome),
                IF outcome.kind = "raise" THEN created.nextId
                ELSE created.nextId + Len(rows_to_insert))

----------------------------------------------------------------------------
(* Parts route: routes/parts_import_routes.py *)

\* int(float(s)): truncation toward zero
IntOfFloat(s) ==
    IF FloatCents(s) >= 0 THEN FloatCents(s) \div 100
    ELSE 0 - ((0 - FloatCents(s)) \div 100)

\* list.sort(key=qty) is stable: a tier goes after the tiers with qty <= its own
RECURSIVE InsertTier(_, _)
InsertTier(sorted, t) ==
    IF sorted = <<>> THEN <<t>>
    ELSE IF Head(sorted).qty <= t.qty THEN <<Head(sorted)>> \o InsertTier(Tail(sorted), t)
    ELSE <<t>> \o sorted

RECURSIVE SortTiers(_, _)
SortTiers(tiers, k) ==
    IF k = 0 THEN <<>> ELSE InsertTier(SortTiers(tiers, k - 1), tiers[k])

\* _transform_pricing_to_jsonb
TransformPricingToJsonb(row, pricing_columns) ==
    LET tier(pair) ==
            LET qty_str == Strip(RowGet(row, pair.qty_column))
                price_str == Strip(RowGet(row, pair.price_column))
            IN IF qty_str # "" /\ price_str # ""
                  /\ FloatParses(qty_str) /\ FloatParses(price_str)
                  /\ IntOfFloat(qty_str) > 0 /\ FloatCents(price_str) >= 0
               THEN <<[qty |-> IntOfFloat(qty_str), price |-> FloatCents(price_str)]>>
               ELSE <<>>
        tiers == ConcatUpTo([k \in 1..Len(pricing_columns) |-> tier(pricing_columns[k])],
                            Len(pricing_columns))
    IN SortTiers(tiers, Len(tiers))

\* int(float(qty_str)) raises OverflowError, which `except ValueError` lets through
QtyOverflows(qty_str) == qty_str = "inf"

\* the loop over the pairs raises
PricingRaises(row, pricing_columns) ==
    \E k \in DOMAIN pricing_columns :
        /\ Strip(RowGet(row, pricing_columns[k].qty_column)) # ""
        /\ Strip(RowGet(row, pricing_columns[k].price_column)) # ""
        /\ QtyOverflows(Strip(RowGet(row, pricing_columns[k].qty_column)))

\* _transform_pricing_to_jsonb as execute_import calls it for a row
RoutePricing(row, pricing_columns) ==
    IF PricingRaises(row, pricing_columns) THEN [raised |-> "OverflowError"]
    ELSE [pricing |-> TransformPricingToJsonb(row, pricing_columns)]

\* transform_pricing_to_jsonb as GenericImportService.execute calls it:
\* pre_insert_transform(record, **kwargs), the row is not among the arguments
PreInsertTransform(pricing_pairs, row_data) ==
    IF pricing_pairs = <<>> \/ row_data = <<>> THEN [pricing |-> <<>>]
    ELSE RoutePricing(row_data[1], pricing_pairs)

\* **kwargs of execute: what the caller adds to the arguments it names
GenericKwargs(r) ==
    IF "kwargs" \in DOMAIN r THEN r.kwargs
    ELSE [pricing_pairs |-> <<>>, row_data |-> <<>>]

\* pre_insert_transform raises, and the outer handler of execute answers 500
GenericTransformRaises(config, r) ==
    /\ config.pre_insert_transform
    /\ "raised" \in DOMAIN PreInsertTransform(GenericKwargs(r).pricing_pairs,
                                              GenericKwargs(r).row_data)

\* the record of one row: company id, mapped values, defaults, and then
\* pre_insert_transform(record, **kwargs)
GenericRecord(config, r, row) ==
    LET record == GenericApplyDefaults(config,
                      GenericMapFields(config, row, r.mappings,
                                       (config.company_id_field :> r.company_id), 1),
                      1)
    IN IF config.pre_insert_transform
       THEN ("pricing" :> PreInsertTransform(GenericKwargs(r).pricing_pairs,
                                             GenericKwargs(r).row_data).pricing)
            @@ record
       ELSE record

\* the except branch around the generic bulk insert
GenericInsertError(error_str) ==
    IF Contains(error_str, "23505") \/ Contains(Lower(error_str), "duplicate key")
    THEN HttpError(400, "Import failed: A record with this identifier already exists.")
    ELSE HttpError(500, "Database error occurred during import. Please try again.")

\* GenericImportService.execute
GenericExecute(config, r, st, ids, outcome) ==
    LET validate_response == GenericValidate(config, r, st)
        skip_row_numbers == SkipRowNumbers(validate_response)
        kept == RowsKept(r.rows, skip_row_numbers)
        rows_to_insert == [k \in 1..Len(kept) |-> GenericRecord(config, r, r.rows[kept[k]])]
        skipped == Len(r.rows) - Len(kept)
    IN
    IF validate_response.has_conflicts /\ ~r.skip_conflicts
    THEN Result(HttpError(400, ConflictsDetail), <<>>, st, ids)
    ELSE IF Len(kept) > 0 /\ GenericTransformRaises(config, r)
    THEN Result(HttpError(500, "An unexpected error occurred during import: OverflowError"),
                <<>>, st, ids)
    ELSE IF Len(rows_to_insert) = 0
    THEN Result(HttpOk(ExecuteBody(0, skipped)), <<>>, st, ids)
    ELSE Result(IF outcome.kind = "raise" THEN GenericInsertError(outcome.text)
                ELSE HttpOk(ExecuteBody(ReturnedCount(rows_to_insert, outcome), skipped)),
                <<[table |-> config.table_name, records |-> rows_to_insert,
                  outcome |-> outcome]>>,
                InsertInto(st, config.table_name, rows_to_insert, ids, outcome),
                IF outcome.kind = "raise" THEN ids ELSE ids + Len(rows_to_insert))

\* customer_code_to_id.get(key): the last customer of the company filed
\* under the lower-cased code
CustomerIdFor(customers, key) ==
    LET found == SelectSeq(customers, LAMBDA c : Lower(c.customer_code) = key)
    IN IF Len(found) = 0 THEN None ELSE found[Len(found)].id

\* the customer id a row resolves to under the customer match mode
PartCustomerId(r, row, customers) ==
    IF r.customer_match_mode = "all_to_one" THEN r.selected_customer_id
    ELSE IF r.customer_match_mode = "by_column"
    THEN LET customer_code == CellOf(row, ReverseGet(r.mappings, "customer_code"))
         IN IF customer_code # "" THEN CustomerIdFor(customers, Lower(customer_code))
            ELSE None
    ELSE None

\* the key of a row: (part_number.lower(), customer_id)
PartKey(r, row, customers) ==
    <<Lower(CellOf(row, ReverseGet(r.mappings, "part_number"))),
      PartCustomerId(r, row, customers)>>

\* part_occurrences[key]: the rows with a part number filed under the key
PartOccurrences(r, customers, key) ==
    SelectSeq(Indices(r.rows),
              LAMBDA n : /\ CellOf(r.rows[n], ReverseGet(r.mappings, "part_number")) # ""
                         /\ PartKey(r, r.rows[n], customers) = key)

\* existing_parts_lookup[key]: the existing parts filed under the key
ExistingParts(existing_parts, key) ==
    SelectSeq(existing_parts,
              LAMBDA p : <<Lower(p.part_number), p.customer_id>> = key)

PartConflict(row_number, part_number, customer_code, type, id, value) ==
    [row_number |-> row_number, csv_part_number |-> part_number,
     csv_customer_code |-> customer_code, conflict_type |-> type,
     existing_part_id |-> id, existing_value |-> value]

\* the second pass for one row
PartRow(r, existing_parts, customers, row_number) ==
    LET row == r.rows[row_number]
        part_number == CellOf(row, ReverseGet(r.mappings, "part_number"))
        customer_code == IF r.customer_match_mode = "by_column"
                         THEN CellOf(row, ReverseGet(r.mappings, "customer_code"))
                         ELSE ""
        customer_id == PartCustomerId(r, row, customers)
        key == <<Lower(part_number), customer_id>>
        other_rows == SelectSeq(PartOccurrences(r, customers, key),
                                LAMBDA n : n # row_number)
        material_cost_column == ReverseGet(r.mappings, "material_cost")
        material_cost_str == CellOf(row, material_cost_column)
        clean == [errors |-> <<>>, conflicts |-> <<>>]
    IN
    IF part_number = ""
    THEN [clean EXCEPT !.errors =
            <<[row_number |-> row_number, error_type |-> "missing_part_number",
               field |-> "part_number"]>>]
    ELSE IF r.customer_match_mode = "by_column" /\ customer_code # ""
            /\ customer_id = None
    THEN [clean EXCEPT !.conflicts =
            <<PartConflict(row_number, part_number, customer_code,
                           "customer_not_found", "", customer_code)>>]
    ELSE IF Len(PartOccurrences(r, customers, key)) > 1 /\ Len(other_rows) > 0
    THEN [clean EXCEPT !.conflicts =
            <<PartConflict(row_number, part_number, customer_code,
                           "csv_duplicate", "", other_rows)>>]
    ELSE IF Len(ExistingParts(existing_parts, key)) > 0
    THEN [clean EXCEPT !.conflicts =
            <<PartConflict(row_number, part_number, customer_code,
                  "duplicate_part_number",
                  ExistingParts(existing_parts, key)[Len(ExistingParts(existing_parts, key))].id,
                  part_number)>>]
    ELSE IF material_cost_column # None /\ material_cost_str # ""
            /\ (~FloatParses(material_cost_str) \/ FloatCents(material_cost_str) < 0)
    THEN [clean EXCEPT !.errors =
            <<[row_number |-> row_number, error_type |-> "invalid_material_cost",
               field |-> "material_cost"]>>]
    ELSE clean

\* POST /api/parts/import/validate
PartsValidate(r, st) ==
    LET existing_parts == SelectByCompany(st, "parts", r.company_id)
        customers == SelectByCompany(st, "customers", r.company_id)
        n == Len(r.rows)
        per == [i \in 1..n |-> PartRow(r, existing_parts, customers, i)]
        errs == [i \in 1..n |-> per[i].errors]
        cons == [i \in 1..n |-> per[i].conflicts]
    IN
    IF r.customer_match_mode = "all_to_one" /\ r.selected_customer_id = None
    THEN HttpError(400, "selected_customer_id is required when customer_match_mode is ALL_TO_ONE")
    ELSE IF r.customer_match_mode = "all_to_one"
            /\ ~\E k \in DOMAIN customers : customers[k].id = r.selected_customer_id
    THEN HttpError(400, "Selected customer not found")
    ELSE HttpOk(ValidateResponse(r.rows, ConcatUpTo(cons, n), ConcatUpTo(errs, n),
                    {i \in 1..n : Len(cons[i]) > 0}, {i \in 1..n : Len(errs[i]) > 0}))

\* the record built for one row that is not skipped
PartRecord(r, row, customers) ==
    LET reverse(f) == ReverseGet(r.mappings, f)
        plain == {f \in {"part_number", "description", "notes"} :
                     /\ reverse(f) # None /\ reverse(f) \in DOMAIN row
                     /\ Strip(row[reverse(f)]) # ""}
        cost == IF reverse("material_cost") # None /\ reverse("material_cost") \in DOMAIN row
                THEN Strip(row[reverse("material_cost")]) ELSE ""
    IN ("company_id" :> r.company_id)
       @@ ("customer_id" :> PartCustomerId(r, row, customers))
       @@ [f \in plain |-> Strip(row[reverse(f)])]
       @@ (IF cost # "" /\ FloatParses(cost)
           THEN ("material_cost" :> FloatCents(cost)) ELSE <<>>)
       @@ ("pricing" :> TransformPricingToJsonb(row, r.pricing_columns))

\* the except branch around the parts bulk insert
PartsInsertError(error_str) ==
    IF Contains(error_str, "23505") \/ Contains(Lower(error_str), "duplicate key")
    THEN HttpError(400, "Import failed: A part with this number already exists. Please check your CSV for duplicate part numbers.")
    ELSE HttpError(500, "Database error occurred during import. Please try again.")

\* POST /api/parts/import/execute
PartsExecute(r, st, ids, outcome) ==
    LET validate_http == PartsValidate(r, st)
        validate_response == validate_http.body
        skip_row_numbers == SkipRowNumbers(validate_response)
        customers == IF r.customer_match_mode = "by_column"
                     THEN SelectByCompany(st, "customers", r.company_id) ELSE <<>>
        kept == RowsKept(r.rows, skip_row_numbers)
        rows_to_insert == [k \in 1..Len(kept) |-> PartRecord(r, r.rows[kept[k]], customers)]
        skipped == Len(r.rows) - Len(kept)
    IN
    IF validate_http.status # 200
    THEN Result(validate_http, <<>>, st, ids)
    ELSE IF validate_response.has_conflicts /\ ~r.skip_conflicts
    THEN Result(HttpError(400, ConflictsDetail), <<>>, st, ids)
    ELSE IF Len(rows_to_insert) = 0
    THEN Result(HttpOk(ExecuteBody(0, skipped)), <<>>, st, ids)
    ELSE Result(IF outcome.kind = "raise" THEN PartsInsertError(outcome.text)
                ELSE HttpOk(ExecuteBody(ReturnedCount(rows_to_insert, outcome), skipped)),
                <<[table |-> "parts", records |-> rows_to_insert,
                   outcome |-> outcome]>>,
                InsertInto(st, "parts", rows_to_insert, ids, outcome),
                IF outcome.kind = "raise" THEN ids ELSE ids + Len(rows_to_insert))

----------------------------------------------------------------------------
(* The requests and the stores the model draws from *)

Tenant == "t1"

SeqsUpTo(S, n) == UNION {[1..k -> S] : k \in 0..n}

FullCustomerMapping == <<<<"Code", "customer_code">>, <<"Name", "name">>>>
CodeOnlyMapping == <<<<"Code", "customer_code">>>>

CustomerRow(code, name) == ("Code" :> code) @@ ("Name" :> name)

CustomerRowValues ==
    {CustomerRow("a1", "x"), CustomerRow(" A1", "Y"), CustomerRow("a1", "Y"),
     CustomerRow("b2", "x"), CustomerRow("b2", "Y"), CustomerRow("", "x"),
     CustomerRow("a1", "")}

CustomerRequests(mappings, n) ==
    {[company_id |-> Tenant, mappings |-> m, rows |-> rows, skip_conflicts |-> FALSE] :
        m \in mappings, rows \in SeqsUpTo(CustomerRowValues, n)}

PartMapping ==
    <<<<"PN", "part_number">>, <<"Cust", "customer_code">>, <<"Cost", "material_cost">>>>

PartRow3(pn, cust, cost) == ("PN" :> pn) @@ ("Cust" :> cust) @@ ("Cost" :> cost)

PartRowValues ==
    {PartRow3("p1", "", ""), PartRow3(" P1", "", ""), PartRow3("p1", "C1", ""),
     PartRow3("p1", "zz", ""), PartRow3("", "", ""),
     PartRow3("q2", "", "5"), PartRow3("q2", "", "abc")}

PartModes ==
    {[customer_match_mode |-> "by_column", selected_customer_id |-> None],
     [customer_match_mode |-> "all_generic", selected_customer_id |-> None],
     [customer_match_mode |-> "all_to_one", selected_customer_id |-> None],
     [customer_match_mode |-> "all_to_one", selected_customer_id |-> "c-1"],
     [customer_match_mode |-> "all_to_one", selected_customer_id |-> "c-9"]}

PartRequests(n) ==
    {[company_id |-> Tenant, mappings |-> PartMapping, pricing_columns |-> <<>>,
      rows |-> rows, customer_match_mode |-> mode.customer_match_mode,
      selected_customer_id |-> mode.selected_customer_id, skip_conflicts |-> FALSE] :
        mode \in PartModes, rows \in SeqsUpTo(PartRowValues, n)}

ResourceMapping ==
    <<<<"Name", "name">>, <<"Group", "resource_group">>, <<"Rate", "labor_rate">>>>

ResourceRow3(name, group, rate) == ("Name" :> name) @@ ("Group" :> group) @@ ("Rate" :> rate)

ResourceRowValues ==
    {ResourceRow3(" Mill", "CNC", ""), ResourceRow3("mill", "cnc", ""),
     ResourceRow3("lathe", "CNC", ""), ResourceRow3("", "", ""),
     ResourceRow3("lathe", "", "5"), ResourceRow3("lathe", "", "abc"),
     ResourceRow3("lathe", "", "-1")}

ResourceRequests(n) ==
    {[company_id |-> Tenant, mappings |-> ResourceMapping, rows |-> rows,
      create_groups |-> c, skip_conflicts |-> FALSE] :
        c \in BOOLEAN, rows \in SeqsUpTo(ResourceRowValues, n)}

\* files whose rows name groups in several spellings
GroupRowValues ==
    {ResourceRow3("lathe", "CNC", ""), ResourceRow3("saw", "cnc", ""),
     ResourceRow3("saw", "EDM", "abc"), ResourceRow3("drill", "EDM", ""),
     ResourceRow3("drill", "", "")}

GroupRequests(n) ==
    {[company_id |-> Tenant, mappings |-> ResourceMapping, rows |-> rows,
      create_groups |-> c, skip_conflicts |-> FALSE] :
        c \in BOOLEAN, rows \in SeqsUpTo(GroupRowValues, n)}

ExistingCustomerA1 ==
    ("id" :> "e1") @@ ("company_id" :> "t1") @@ ("customer_code" :> "A1")
        @@ ("name" :> "Zed") @@ ("country" :> "USA")
ExistingCustomerY ==
    ("id" :> "e2") @@ ("company_id" :> "t1") @@ ("customer_code" :> "k9")
        @@ ("name" :> "y") @@ ("country" :> "USA")
OtherTenantCustomer ==
    ("id" :> "e3") @@ ("company_id" :> "t2") @@ ("customer_code" :> "b2")
        @@ ("name" :> "x") @@ ("country" :> "USA")

CustomerC1 ==
    ("id" :> "c-1") @@ ("company_id" :> "t1") @@ ("customer_code" :> "c1")
        @@ ("name" :> "Acme") @@ ("country" :> "USA")
OtherTenantCustomerZZ ==
    ("id" :> "c-9") @@ ("company_id" :> "t2") @@ ("customer_code" :> "zz")
        @@ ("name" :> "Zed") @@ ("country" :> "USA")

ExistingPartGeneric ==
    ("id" :> "p-1") @@ ("company_id" :> "t1") @@ ("part_number" :> "P1")
        @@ ("customer_id" :> None)
ExistingPartOfC1 ==
    ("id" :> "p-2") @@ ("company_id" :> "t1") @@ ("part_number" :> "p1")
        @@ ("customer_id" :> "c-1")
OtherTenantPart ==
    ("id" :> "p-9") @@ ("company_id" :> "t2") @@ ("part_number" :> "q2")
        @@ ("customer_id" :> None)

ExistingResourceMill ==
    ("id" :> "r-1") @@ ("company_id" :> "t1") @@ ("name" :> "Mill")
OtherTenantResource ==
    ("id" :> "r-9") @@ ("company_id" :> "t2") @@ ("name" :> "lathe")
ExistingGroupCnc ==
    ("id" :> "g-1") @@ ("company_id" :> "t1") @@ ("name" :> "Cnc")
OtherTenantGroup ==
    ("id" :> "g-9") @@ ("company_id" :> "t2") @@ ("name" :> "cnc")

EmptyStore == [customers |-> <<>>, parts |-> <<>>, resources |-> <<>>,
               resource_groups |-> <<>>]

\* store contents a validate call can meet
CustomerStores ==
    {[EmptyStore EXCEPT !.customers = t] :
        t \in {<<OtherTenantCustomer>>,
               <<ExistingCustomerA1, OtherTenantCustomer>>,
               <<OtherTenantCustomer, ExistingCustomerY>>}}

PartStores ==
    {[EmptyStore EXCEPT !.customers = <<CustomerC1, OtherTenantCustomerZZ>>, !.parts = t] :
        t \in {<<OtherTenantPart>>, <<ExistingPartGeneric, ExistingPartOfC1>>}}

ResourceStores ==
    {[EmptyStore EXCEPT !.resources = <<ExistingResourceMill, OtherTenantResource>>,
                        !.resource_groups = t] :
        t \in {<<OtherTenantGroup>>, <<ExistingGroupCnc>>}}

GroupStores ==
    {[EmptyStore EXCEPT !.resources = <<OtherTenantResource>>, !.resource_groups = t] :
        t \in {<<OtherTenantGroup>>, <<ExistingGroupCnc, OtherTenantGroup>>}}

\* store contents at the start of a validate-then-execute exchange
CustomerExecStores ==
    {[EmptyStore EXCEPT !.customers = t] :
        t \in {<<OtherTenantCustomer>>, <<OtherTenantCustomer, ExistingCustomerY>>}}

PartExecStores ==
    {[EmptyStore EXCEPT !.customers = <<CustomerC1, OtherTenantCustomerZZ>>,
                        !.parts = <<OtherTenantPart, ExistingPartOfC1>>]}

ResourceExecStores ==
    {[EmptyStore EXCEPT !.resources = <<OtherTenantResource>>,
                        !.resource_groups = <<OtherTenantGroup>>]}

NoResponse == [status |-> 0]

----------------------------------------------------------------------------
(* The rate limiter is idle in the import specifications and vice versa *)

RlIdle ==
    /\ rl = "none"
    /\ requests = <<>>
    /\ now = 0
    /\ admitted = <<>>
    /\ lastCheck = <<>>
    /\ threads = <<>>
    /\ lock = <<>>

AnIdle ==
    /\ env = <<>>
    /\ cache = {}
    /\ areq = <<>>
    /\ aresp = NoResponse
    /\ trace = <<>>
    /\ acount = 0
    /\ call = <<>>
    /\ ret = <<>>

PipeIdle ==
    /\ impl = "none"
    /\ req = <<>>
    /\ store = EmptyStore
    /\ pc = "idle"
    /\ vresp = NoResponse
    /\ eresp = NoResponse
    /\ writes = <<>>
    /\ nextId = 1

----------------------------------------------------------------------------
(* The import pipeline: a client validates a payload, another request may *)
(* write to the store, the client executes the same payload               *)

PipeStart ==
    /\ pc = "start"
    /\ vresp = NoResponse
    /\ eresp = NoResponse
    /\ writes = <<>>
    /\ nextId = 1
    /\ RlIdle
    /\ AnIdle

Init ==
    /\ \/ /\ impl \in {"customers", "generic"}
          /\ req \in CustomerRequests({FullCustomerMapping}, MaxExecRows)
          /\ store \in CustomerExecStores
       \/ /\ impl = "parts"
          /\ req \in PartRequests(MaxExecRows)
          /\ store \in PartExecStores
       \/ /\ impl = "resources"
          /\ req \in ResourceRequests(MaxExecRows)
          /\ store \in ResourceExecStores
    /\ PipeStart

InitValidate ==
    /\ \/ /\ impl \in {"customers", "generic"}
          /\ req \in CustomerRequests({FullCustomerMapping, CodeOnlyMapping}, MaxRows)
          /\ store \in CustomerStores
       \/ /\ impl = "parts"
          /\ req \in PartRequests(MaxRows)
          /\ store \in PartStores
       \/ /\ impl = "resources"
          /\ req \in ResourceRequests(MaxRows) \cup GroupRequests(MaxRows)
          /\ store \in ResourceStores \cup GroupStores
    /\ PipeStart

\* the validate handler of the implementation
ValidateOf(i, r, st) ==
    CASE i = "customers" -> HttpOk(CustomersValidate(r, st))
      [] i = "generic" -> HttpOk(GenericValidate(CUSTOMERS_CONFIG, r, st))
      [] i = "parts" -> PartsValidate(r, st)
      [] i = "resources" -> HttpOk(ResourcesValidate(r, st))

\* the record another request of the same company inserts between the calls
RaceRecord(i) ==
    CASE i \in {"customers", "generic"} -> [table |-> "customers", record |-> ExistingCustomerA1]
      [] i = "parts" -> [table |-> "parts", record |-> ExistingPartGeneric]
      [] i = "resources" -> [table |-> "resources", record |-> ExistingResourceMill]

\* variant: execute trusts the validation of the store as it was before the
\* other request wrote to it
ExecuteOfStale(i, r, st, ids, outcome, group_outcomes) ==
    LET race == RaceRecord(i)
        before == [st EXCEPT ![race.table] = SelectSeq(@, LAMBDA e : e # race.record)]
        res == CASE i = "customers" -> CustomersExecute(r, before, ids, outcome)
                 [] i = "generic" -> GenericExecute(CUSTOMERS_CONFIG, r, before, ids, outcome)
                 [] i = "parts" -> PartsExecute(r, before, ids, outcome)
                 [] i = "resources" ->
                        ResourcesExecute(r, before, ids, outcome, group_outcomes)
    IN [res EXCEPT !.store =
            [t \in DOMAIN st |->
                st[t] \o SubSeq(res.store[t], Len(before[t]) + 1, Len(res.store[t]))]]

\* the execute handler of the implementation
ExecuteOf(i, r, st, ids, outcome, group_outcomes) ==
    CASE i = "customers" -> CustomersExecute(r, st, ids, outcome)
      [] i = "generic" -> GenericExecute(CUSTOMERS_CONFIG, r, st, ids, outcome)
      [] i = "parts" -> PartsExecute(r, st, ids, outcome)
      [] i = "resources" -> ResourcesExecute(r, st, ids, outcome, group_outcomes)

\* the client calls validate
Validate ==
    /\ pc = "start"
    /\ vresp' = ValidateOf(impl, req, store)
    /\ pc' = "validated"
    /\ UNCHANGED <<impl, req, store, eresp, writes, nextId, rlVars, anVars>>

ExternalInsert ==
    /\ pc = "validated"
    /\ store' = [store EXCEPT ![RaceRecord(impl).table] = @ \o <<RaceRecord(impl).record>>]
    /\ pc' = "raced"
    /\ UNCHANGED <<impl, req, vresp, eresp, writes, nextId, rlVars, anVars>>

\* the outcomes of the group inserts an execute can meet
GroupOutcomes(i, r, st) ==
    IF i = "resources"
    THEN [1..Len(ResourcesValidate(r, st).groups_to_create) -> {"ok", "raise"}]
    ELSE {<<>>}

\* the client calls execute with the payload of validate and a skip policy
Execute ==
    /\ pc \in {"validated", "raced"}
    /\ \E skip \in BOOLEAN, outcome \in InsertOutcomes,
          group_outcomes \in GroupOutcomes(impl, req, store) :
          \E res \in {ExecuteOf(impl, [req EXCEPT !.skip_conflicts = skip], store,
                                nextId, outcome, group_outcomes)} :
             /\ req' = [req EXCEPT !.skip_conflicts = skip]
             /\ eresp' = res.response
             /\ writes' = res.writes
             /\ store' = res.store
             /\ nextId' = res.nextId
    /\ pc' = "done"
    /\ UNCHANGED <<impl, vresp, rlVars, anVars>>

Next == Validate \/ ExternalInsert \/ Execute

Spec == Init /\ [][Next]_vars

----------------------------------------------------------------------------
(* The generic service on a store whose reads can fail *)

\* the client of a call: the store, whose select raises or answers
StoreClient(st, read) ==
    IF read = "fails" THEN st @@ ("read_fails" :> TRUE) ELSE st

InitFetch ==
    /\ impl = "generic"
    /\ req \in CustomerRequests({FullCustomerMapping}, MaxExecRows)
    /\ store \in CustomerExecStores
    /\ PipeStart

\* the client calls validate of the generic service
FetchValidate ==
    /\ pc = "start"
    /\ \E read \in {"ok", "fails"} :
          /\ vresp' = HttpOk(GenericValidate(CUSTOMERS_CONFIG, req, StoreClient(store, read)))
          /\ pc' = IF read = "fails" THEN "validated_unread" ELSE "validated"
    /\ UNCHANGED <<impl, req, store, eresp, writes, nextId, rlVars, anVars>>

\* the client calls execute of the generic service, which validates again
FetchExecute ==
    /\ pc \in {"validated", "validated_unread"}
    /\ \E skip \in BOOLEAN, outcome \in InsertOutcomes, read \in {"ok", "fails"} :
          \E res \in {GenericExecute(CUSTOMERS_CONFIG, [req EXCEPT !.skip_conflicts = skip],
                                     StoreClient(store, read), nextId, outcome)} :
             /\ req' = [req EXCEPT !.skip_conflicts = skip]
             /\ eresp' = res.response
             /\ writes' = res.writes
             /\ store' = [t \in DOMAIN store |-> res.store[t]]
             /\ nextId' = res.nextId
             /\ pc' = IF read = "fails" THEN "done_unread" ELSE "done"
    /\ UNCHANGED <<impl, vresp, rlVars, anVars>>

NextFetch == FetchValidate \/ FetchExecute

SpecFetch == InitFetch /\ [][NextFetch]_vars

\* validate alone, on larger files and more stores
NextValidate == Validate

SpecValidate == InitValidate /\ [][NextValidate]_vars

----------------------------------------------------------------------------
(* The rate limiters: api/utils/rate_limiter.py (used by the routes) and  *)
(* the one of import_framework/service.py, called one call at a time      *)

Keys == {"t1", "t2"}

\* the timestamps of a key that are still inside the window
Recent(which, times, t_now) ==
    IF which = "utils"
    THEN SelectSeq(times, LAMBDA t : t > t_now - WindowSeconds)
    ELSE SelectSeq(times, LAMBDA t : t_now - t < WindowSeconds)

\* variant: a rejected call is recorded too
checkRecordingRejected(which, reqs, key, t_now) ==
    LET kept == Recent(which, reqs[key], t_now)
    IN  [requests |-> [reqs EXCEPT ![key] = Append(kept, t_now)],
         allowed |-> Len(kept) < MaxRequests]

\* check(key): the list of the key after the call and the value returned
check(which, reqs, key, t_now) ==
    LET kept == Recent(which, reqs[key], t_now)
    IN  IF Len(kept) >= MaxRequests
        THEN [requests |-> [reqs EXCEPT ![key] = kept], allowed |-> FALSE]
        ELSE [requests |-> [reqs EXCEPT ![key] = Append(kept, t_now)], allowed |-> TRUE]

InitLimiter ==
    /\ rl \in {"utils", "service"}
    /\ requests = [k \in Keys |-> <<>>]
    /\ now = 0
    /\ admitted = [k \in Keys |-> <<>>]
    /\ lastCheck = <<>>
    /\ threads = <<>>
    /\ lock = <<>>
    /\ PipeIdle
    /\ AnIdle

\* the clock advances
Tick ==
    /\ now < MaxTime
    /\ now' = now + 1
    /\ UNCHANGED <<rl, requests, admitted, lastCheck, threads, lock, pipeVars, anVars>>

\* one call of check; admitted is the history of the calls that returned True
Check ==
    \E key \in Keys :
        \E res \in {check(rl, requests, key, now)} :
            /\ requests' = res.requests
            /\ admitted' = IF res.allowed
                           THEN [admitted EXCEPT ![key] = Append(@, now)]
                           ELSE admitted
            /\ lastCheck' = <<[key |-> key, time |-> now, allowed |-> res.allowed,
                               before |-> admitted[key]]>>
            /\ UNCHANGED <<rl, now, threads, lock, pipeVars, anVars>>

NextLimiter == Tick \/ Check

SpecLimiter == InitLimiter /\ [][NextLimiter]_vars

----------------------------------------------------------------------------
(* The rate limiters under concurrent calls: every thread runs check once  *)
(* for the same key, a step at a time, and then goes on to the oracle      *)

Callers == 1..(MaxRequests + 1)

SharedKey == "t1"

NotInCheck == [pc |-> "start", t |-> 0, kept |-> <<>>, allowed |-> FALSE]

\* self.requests[key]: the defaultdict of utils gives a missing key the
\* empty list
ListOf(reqs, key) == IF key \in DOMAIN reqs THEN reqs[key] ELSE <<>>

\* self.requests[key] = value
WithList(reqs, key, value) == [k \in DOMAIN reqs \cup {key} |-> IF k = key THEN value ELSE reqs[k]]

InitThreads ==
    /\ rl \in {"utils", "service"}
    /\ requests = [k \in {} |-> <<>>]
    /\ now = 0
    /\ admitted = [k \in Keys |-> <<>>]
    /\ lastCheck = <<>>
    /\ threads = [c \in Callers |-> NotInCheck]
    /\ lock = <<>>
    /\ PipeIdle
    /\ AnIdle

\* now = datetime.utcnow() / now = time.time()
ReadClock ==
    \E c \in Callers :
        /\ threads[c].pc = "start"
        /\ threads' = [threads EXCEPT ![c].pc = "clock", ![c].t = now]
        /\ UNCHANGED <<rl, requests, now, admitted, lastCheck, lock, pipeVars, anVars>>

\* with self.lock: only the limiter of utils has a lock
Acquire ==
    \E c \in Callers :
        /\ rl = "utils"
        /\ threads[c].pc = "clock"
        /\ lock = <<>>
        /\ lock' = <<c>>
        /\ threads' = [threads EXCEPT ![c].pc = "prune"]
        /\ UNCHANGED <<rl, requests, now, admitted, lastCheck, pipeVars, anVars>>

\* if key not in self._requests
TestKey ==
    \E c \in Callers :
        /\ rl = "service"
        /\ threads[c].pc = "clock"
        /\ threads' = [threads EXCEPT
                          ![c].pc = IF SharedKey \in DOMAIN requests THEN "prune" ELSE "create"]
        /\ UNCHANGED <<rl, requests, now, admitted, lastCheck, lock, pipeVars, anVars>>

\* self._requests[key] = []
CreateKey ==
    \E c \in Callers :
        /\ threads[c].pc = "create"
        /\ requests' = WithList(requests, SharedKey, <<>>)
        /\ threads' = [threads EXCEPT ![c].pc = "prune"]
        /\ UNCHANGED <<rl, now, admitted, lastCheck, lock, pipeVars, anVars>>

\* the list comprehension over the list of the key
PruneRead ==
    \E c \in Callers :
        /\ threads[c].pc = "prune"
        /\ threads' = [threads EXCEPT
                          ![c].pc = "store",
                          ![c].kept = Recent(rl, ListOf(requests, SharedKey), threads[c].t)]
        /\ UNCHANGED <<rl, requests, now, admitted, lastCheck, lock, pipeVars, anVars>>

\* the assignment of its result to the key
PruneStore ==
    \E c \in Callers :
        /\ threads[c].pc = "store"
        /\ requests' = WithList(requests, SharedKey, threads[c].kept)
        /\ threads' = [threads EXCEPT ![c].pc = "compare", ![c].kept = <<>>]
        /\ UNCHANGED <<rl, now, admitted, lastCheck, lock, pipeVars, anVars>>

\* if len(...) >= self.max_requests: return False
Compare ==
    \E c \in Callers :
        /\ threads[c].pc = "compare"
        /\ IF Len(ListOf(requests, SharedKey)) >= MaxRequests
           THEN /\ threads' = [threads EXCEPT ![c].pc = "done"]
                /\ lock' = IF lock = <<c>> THEN <<>> ELSE lock
           ELSE /\ threads' = [threads EXCEPT ![c].pc = "append"]
                /\ lock' = lock
        /\ UNCHANGED <<rl, requests, now, admitted, lastCheck, pipeVars, anVars>>

\* self.requests[key].append(now); return True
AppendNow ==
    \E c \in Callers :
        /\ threads[c].pc = "append"
        /\ requests' = WithList(requests, SharedKey,
                                Append(ListOf(requests, SharedKey), threads[c].t))
        /\ threads' = [threads EXCEPT ![c].pc = "done", ![c].allowed = TRUE]
        /\ admitted' = [admitted EXCEPT ![SharedKey] = Append(@, threads[c].t)]
        /\ lock' = IF lock = <<c>> THEN <<>> ELSE lock
        /\ UNCHANGED <<rl, now, lastCheck, pipeVars, anVars>>

\* the admitted caller goes on to get_provider and suggest_column_mappings
CallOracle ==
    \E c \in Callers :
        /\ threads[c].pc = "done"
        /\ threads[c].allowed
        /\ threads' = [threads EXCEPT ![c].pc = "oracle"]
        /\ UNCHANGED <<rl, requests, now, admitted, lastCheck, lock, pipeVars, anVars>>

NextThreads ==
    \/ Tick
    \/ ReadClock
    \/ Acquire
    \/ TestKey
    \/ CreateKey
    \/ PruneRead
    \/ PruneStore
    \/ Compare
    \/ AppendNow
    \/ CallOracle

SpecThreads == InitThreads /\ [][NextThreads]_vars

----------------------------------------------------------------------------
(* Column headers.  The headers of the model and, for each of them, what   *)
(* the string operations and regular expressions of classifier.py give     *)

MAX_COLUMNS_FOR_AI == 30

MaxWide == 31           \* numbered generic columns "field1" .. in one file

\* the numbered generic columns of a wide file
FieldName(k) == "field" \o ToString(k)

FieldNames == {FieldName(k) : k \in 1..(MaxWide + 1)}

\* position of the numbered columns among themselves in code point order:
\* "field1" < "field10" < ... < "field19" < "field2" < "field20" < ...
FieldRank ==
    [h \in FieldNames |->
        LET k == CHOOSE j \in 1..(MaxWide + 1) : FieldName(j) = h
        IN IF k < 10 THEN 11 * k ELSE 11 * (k \div 10) + 1 + (k % 10)]

\* header.lower().strip()
HeaderLower(header) ==
    CASE header = "Customer Code" -> "customer code"
      [] header = "Company Name" -> "company name"
      [] header = "City" -> "city"
      [] header = "Internal Notes" -> "internal notes"
      [] header = "Qty 1" -> "qty 1"
      [] header = "Price 1" -> "price 1"
      [] header = "Part Number" -> "part number"
      [] header = "Part Weight" -> "part weight"
      [] header = "Color" -> "color"
      [] OTHER -> header

\* re.sub(r"[\s_-]+", "_", header_lower)
HeaderNormalized(header_lower) ==
    CASE header_lower = "customer code" -> "customer_code"
      [] header_lower = "company name" -> "company_name"
      [] header_lower = "internal notes" -> "internal_notes"
      [] header_lower = "qty 1" -> "qty_1"
      [] header_lower = "price 1" -> "price_1"
      [] header_lower = "part number" -> "part_number"
      [] header_lower = "part weight" -> "part_weight"
      [] OTHER -> header_lower

\* h.lower().replace(" ", "")
PairKey(h) ==
    CASE h = "Qty 1" -> "qty1"
      [] h = "Price 1" -> "price1"
      [] h = "Customer Code" -> "customercode"
      [] h = "Company Name" -> "companyname"
      [] h = "Internal Notes" -> "internalnotes"
      [] h = "Part Number" -> "partnumber"
      [] h = "Part Weight" -> "partweight"
      [] h = "City" -> "city"
      [] h = "Color" -> "color"
      [] OTHER -> h

\* any(re.match(pattern, header_normalized) for UNIVERSAL_SKIP_PATTERNS)
MatchesUniversalSkip(header_normalized) ==
    header_normalized \in {"id", "legacy_id", "created_at"}

\* the first field of the schema, in declared order, one of whose
\* mapping_patterns matches header_normalized; None when there is none
MappingPatternField(module_name, header_normalized) ==
    CASE module_name = "customers" /\ header_normalized = "customer_code" -> "customer_code"
      [] module_name = "customers" /\ header_normalized = "company_name" -> "name"
      [] module_name = "customers" /\ header_normalized = "city" -> "city"
      [] module_name = "parts" /\ header_normalized = "customer_code" -> "customer_code"
      [] module_name = "parts" /\ header_normalized = "part_number" -> "part_number"
      [] module_name = "parts" /\ header_normalized = "internal_notes" -> "notes"
      [] module_name = "resources" /\ header_normalized = "id" -> "code"
      [] module_name = "resources" /\ header_normalized = "legacy_id" -> "legacy_id"
      [] OTHER -> None

\* any(re.search(pattern, header_normalized) for UNCERTAIN_INDICATORS)
MatchesUncertainIndicator(header_normalized) ==
    \/ header_normalized \in {"customer_code", "custom1", "qty1", "qty2", "qty3"}
    \/ header_normalized \in FieldNames

\* any(hint in header_lower for hint in domain_hints)
DomainHinted(module_name, header_lower) ==
    CASE module_name = "customers" ->
            header_lower \in {"customer code", "company name", "city"}
      [] module_name = "parts" ->
            header_lower \in {"customer code", "internal notes", "qty1", "price1", "qty2",
                              "price2", "qty 1", "price 1", "qty3", "part number",
                              "part weight"}
      [] OTHER -> FALSE

\* int(qty_regex.match(key).group(1)) for the qty_pattern of the parts
\* configuration; 0 when the key does not match
QtyTier(key) ==
    CASE key = "qty1" -> 1
      [] key = "qty2" -> 2
      [] key = "qty3" -> 3
      [] OTHER -> 0

\* the same for price_pattern
PriceTier(key) ==
    CASE key = "price1" -> 1
      [] key = "price2" -> 2
      [] OTHER -> 0

----------------------------------------------------------------------------
(* Rule-based classifier: services/import_framework/classifier.py *)

ColumnClassification(csv_column, db_field, confidence, reasoning, needs_ai) ==
    [csv_column |-> csv_column, db_field |-> db_field, confidence |-> confidence,
     reasoning |-> reasoning, needs_ai |-> needs_ai]

\* [v for v in sample_values if v and v.strip()]
NonEmpty(sample_values) ==
    SelectSeq(sample_values, LAMBDA v : v # "" /\ Strip(v) # "")

\* [row[i] if i < len(row) else "" for row in sample_rows[:limit]]
ColumnValues(sample_rows, i, limit) ==
    [k \in 1..(IF Len(sample_rows) < limit THEN Len(sample_rows) ELSE limit) |->
        IF i <= Len(sample_rows[k]) THEN sample_rows[k][i] ELSE ""]

\* variant: the sample values are looked at before the patterns
ClassifySingleColumnSamplesFirst(header, sample_values, module_name) ==
    LET header_lower == HeaderLower(header)
        header_normalized == HeaderNormalized(header_lower)
        field_name == MappingPatternField(module_name, header_normalized)
        non_empty == NonEmpty(sample_values)
    IN
    IF Len(non_empty) = 0
    THEN ColumnClassification(header, None, 80, "Auto-skip: all sample values empty", FALSE)
    ELSE IF Cardinality(Range(non_empty)) = 1 /\ Len(non_empty) >= 3
    THEN ColumnClassification(header, None, 70,
            "Auto-skip: all sample values identical (likely constant)", FALSE)
    ELSE IF MatchesUniversalSkip(header_normalized)
    THEN ColumnClassification(header, None, 95, "Auto-skip: system column pattern", FALSE)
    ELSE IF field_name # None
    THEN ColumnClassification(header, field_name, 95,
            "Auto-mapped: matches " \o field_name \o " pattern", FALSE)
    ELSE IF MatchesUncertainIndicator(header_normalized)
    THEN ColumnClassification(header, None, 0, "Needs AI: ambiguous column name", TRUE)
    ELSE IF DomainHinted(module_name, header_lower)
    THEN ColumnClassification(header, None, 0,
            "Needs AI: may contain relevant domain data", TRUE)
    ELSE ColumnClassification(header, None, 60,
            "Auto-skip: no recognized pattern, likely irrelevant", FALSE)

\* _classify_single_column; confidence in hundredths
ClassifySingleColumn(header, sample_values, module_name) ==
    LET header_lower == HeaderLower(header)
        header_normalized == HeaderNormalized(header_lower)
        field_name == MappingPatternField(module_name, header_normalized)
        non_empty == NonEmpty(sample_values)
    IN
    IF MatchesUniversalSkip(header_normalized)
    THEN ColumnClassification(header, None, 95, "Auto-skip: system column pattern", FALSE)
    ELSE IF field_name # None
    THEN ColumnClassification(header, field_name, 95,
            "Auto-mapped: matches " \o field_name \o " pattern", FALSE)
    ELSE IF Len(non_empty) = 0
    THEN ColumnClassification(header, None, 80, "Auto-skip: all sample values empty", FALSE)
    ELSE IF Cardinality(Range(non_empty)) = 1 /\ Len(non_empty) >= 3
    THEN ColumnClassification(header, None, 70,
            "Auto-skip: all sample values identical (likely constant)", FALSE)
    ELSE IF MatchesUncertainIndicator(header_normalized)
    THEN ColumnClassification(header, None, 0, "Needs AI: ambiguous column name", TRUE)
    ELSE IF DomainHinted(module_name, header_lower)
    THEN ColumnClassification(header, None, 0,
            "Needs AI: may contain relevant domain data", TRUE)
    ELSE ColumnClassification(header, None, 60,
            "Auto-skip: no recognized pattern, likely irrelevant", FALSE)

\* the classification the loop of classify_columns_generic gives column i
ClassifyColumn(headers, sample_rows, module_name, skip_columns, i) ==
    IF headers[i] \in skip_columns
    THEN ColumnClassification(headers[i], None, 100,
            "Pre-classified (handled separately)", FALSE)
    ELSE ClassifySingleColumn(headers[i], ColumnValues(sample_rows, i, 5), module_name)

\* variant: no `continue` after a pre-classified column, which is classified again
ClassifyColumnsGenericNoContinue(headers, sample_rows, module_name, skip_columns) ==
    LET all == ConcatUpTo([i \in 1..Len(headers) |->
                    IF headers[i] \in skip_columns
                    THEN <<ClassifyColumn(headers, sample_rows, module_name, skip_columns, i),
                           ClassifyColumn(headers, sample_rows, module_name, {}, i)>>
                    ELSE <<ClassifyColumn(headers, sample_rows, module_name, {}, i)>>],
                Len(headers))
        uncertain == SelectSeq(all, LAMBDA c : c.needs_ai)
    IN [resolved |-> SelectSeq(all, LAMBDA c : ~c.needs_ai),
        uncertain_headers |-> [k \in 1..Len(uncertain) |-> uncertain[k].csv_column]]

\* classify_columns_generic
ClassifyColumnsGeneric(headers, sample_rows, module_name, skip_columns) ==
    LET all == [i \in 1..Len(headers) |->
                    ClassifyColumn(headers, sample_rows, module_name, skip_columns, i)]
        uncertain == SelectSeq(all, LAMBDA c : c.needs_ai)
    IN [resolved |-> SelectSeq(all, LAMBDA c : ~c.needs_ai),
        uncertain_headers |-> [k \in 1..Len(uncertain) |-> uncertain[k].csv_column]]

\* headers_lower = {h.lower().replace(" ", ""): h for h in headers}: the keys
\* in the order of their first header, each with the last header that has it
HeadersLowerKeys(headers) ==
    LET first == SelectSeq(Indices(headers),
                    LAMBDA i : \A j \in 1..(i - 1) : PairKey(headers[j]) # PairKey(headers[i]))
    IN [k \in 1..Len(first) |-> PairKey(headers[first[k]])]

HeadersLowerValue(headers, key) ==
    LET last == CHOOSE i \in DOMAIN headers :
                    /\ PairKey(headers[i]) = key
                    /\ \A j \in (i + 1)..Len(headers) : PairKey(headers[j]) # key
    IN headers[last]

\* the inner loop: the first key, in dict order, whose header is not matched
\* yet and whose price tier is tier_num; 0 when there is none
PriceKeyFor(headers, keys, matched_columns, tier_num) ==
    LET hits == SelectSeq(Indices(keys), LAMBDA k :
                    /\ HeadersLowerValue(headers, keys[k]) \notin matched_columns
                    /\ PriceTier(keys[k]) # 0
                    /\ PriceTier(keys[k]) = tier_num)
    IN IF Len(hits) = 0 THEN 0 ELSE hits[1]

\* the outer loop from key k on: the pairs found, as (tier_num, qty, price)
RECURSIVE PairsFrom(_, _, _, _, _)
PairsFrom(headers, keys, k, pricing_pairs, matched_columns) ==
    IF k > Len(keys) THEN [pricing_pairs |-> pricing_pairs, matched_columns |-> matched_columns]
    ELSE LET original == HeadersLowerValue(headers, keys[k])
             tier_num == QtyTier(keys[k])
             p == PriceKeyFor(headers, keys, matched_columns, tier_num)
         IN IF original \in matched_columns \/ tier_num = 0 \/ p = 0
            THEN PairsFrom(headers, keys, k + 1, pricing_pairs, matched_columns)
            ELSE PairsFrom(headers, keys, k + 1,
                    Append(pricing_pairs,
                           <<tier_num, original, HeadersLowerValue(headers, keys[p])>>),
                    matched_columns \cup {original, HeadersLowerValue(headers, keys[p])})

\* pricing_pairs.sort(key=lambda x: x[0]): stable insertion by tier number
RECURSIVE SortByTier(_, _)
SortByTier(pricing_pairs, k) ==
    IF k = 0 THEN <<>>
    ELSE LET sorted == SortByTier(pricing_pairs, k - 1)
             x == pricing_pairs[k]
             before == SelectSeq(sorted, LAMBDA y : y[1] <= x[1])
             after == SelectSeq(sorted, LAMBDA y : y[1] > x[1])
         IN before \o <<x>> \o after

\* detect_column_pairs with the patterns of the parts configuration
DetectColumnPairs(headers) ==
    LET found == PairsFrom(headers, HeadersLowerKeys(headers), 1, <<>>, {})
        sorted == SortByTier(found.pricing_pairs, Len(found.pricing_pairs))
    IN [pairs |-> [k \in 1..Len(sorted) |-> <<sorted[k][2], sorted[k][3]>>],
        matched_columns |-> found.matched_columns]

----------------------------------------------------------------------------
(* Analyze cache: _get_cache_key, _get_cached_response, _save_to_cache *)

\* position of a header in sorted(): code point order of the strings
HeaderRank(h) ==
    CASE h = "City" -> 1
      [] h = "Color" -> 2
      [] h = "Company Name" -> 3
      [] h = "Customer Code" -> 4
      [] h = "Internal Notes" -> 5
      [] h = "Part Number" -> 6
      [] h = "Part Weight" -> 7
      [] h = "Price 1" -> 8
      [] h = "Qty 1" -> 9
      [] h = "created_at" -> 10
      [] h = "custom1" -> 11
      [] h \in FieldNames -> 100 + FieldRank[h]
      [] h = "id" -> 1000
      [] h = "legacy_id" -> 1001
      [] h = "price1" -> 1002
      [] h = "price2" -> 1003
      [] h = "qty1" -> 1004
      [] h = "qty2" -> 1005
      [] h = "qty3" -> 1006

\* sorted(headers)
RECURSIVE SortedHeaders(_, _)
SortedHeaders(headers, k) ==
    IF k = 0 THEN <<>>
    ELSE LET sorted == SortedHeaders(headers, k - 1)
             x == headers[k]
         IN SelectSeq(sorted, LAMBDA y : HeaderRank(y) <= HeaderRank(x)) \o <<x>>
              \o SelectSeq(sorted, LAMBDA y : HeaderRank(y) > HeaderRank(x))

\* ','.join(strings)
RECURSIVE Join(_, _)
Join(strings, k) ==
    IF k = 0 THEN ""
    ELSE IF k = 1 THEN strings[1]
    ELSE Join(strings, k - 1) \o "," \o strings[k]

\* variant: the headers are joined in the order of the file
CacheKeyUnsorted(prefix, company_id, headers) ==
    prefix \o company_id \o ":" \o Join(headers, Len(headers))

\* the string that _get_cache_key hashes (the service puts the module first)
CacheKey(prefix, company_id, headers) ==
    Only({prefix \o company_id \o ":" \o Join(sorted, Len(sorted)) :
            sorted \in {SortedHeaders(headers, Len(headers))}})

\* variant: the cache is never read
GetCachedResponseNever(e, files, dir, cache_key) ==
    <<>>

\* the content of the file of a key in a cache directory: a sequence of one
\* response, and the empty sequence when the function returns None (no file,
\* or a file json.load cannot read: `except Exception: return None`)
GetCachedResponse(e, files, dir, cache_key) ==
    IF ~e.cache_enabled THEN <<>>
    ELSE IF \E f \in files : f.dir = dir /\ f.key = cache_key /\ f.response # <<>>
    THEN <<(CHOOSE f \in files : f.dir = dir /\ f.key = cache_key).response>>
    ELSE <<>>

\* what the file system does with the write of this call: "ok", "none"
\* (mkdir or open raises, the directory is as before) or "partial" (the file
\* is opened for writing and json.dump raises, a cut file is left)
DiskOf(e) == IF "disk" \in DOMAIN e THEN e.disk ELSE "ok"

\* _save_to_cache: `except Exception: pass` around the whole write
SaveToCache(e, files, dir, cache_key, response) ==
    IF ~e.cache_enabled \/ DiskOf(e) = "none" THEN files
    ELSE {f \in files : ~(f.dir = dir /\ f.key = cache_key)}
            \cup {[dir |-> dir, key |-> cache_key,
                   response |-> IF DiskOf(e) = "partial" THEN <<>> ELSE response]}

----------------------------------------------------------------------------
(* Oracle: services/ai/factory.py, claude_provider.py, openai_provider.py *)

\* variant: a provider is created without its API key
CreateProviderWithoutKey(e, provider_name) ==
    IF provider_name \in {"anthropic", "openai"}
    THEN [ok |-> TRUE, provider_name |-> provider_name]
    ELSE [ok |-> FALSE, error |-> "Unknown AI provider: " \o provider_name]

\* create_provider
CreateProvider(e, provider_name) ==
    CASE provider_name = "anthropic" ->
            IF "anthropic" \in e.api_keys
            THEN [ok |-> TRUE, provider_name |-> "anthropic"]
            ELSE [ok |-> FALSE, error |-> "ANTHROPIC_API_KEY is required"]
      [] provider_name = "openai" ->
            IF "openai" \in e.api_keys
            THEN [ok |-> TRUE, provider_name |-> "openai"]
            ELSE [ok |-> FALSE, error |-> "OPENAI_API_KEY is required"]
      [] OTHER -> [ok |-> FALSE, error |-> "Unknown AI provider: " \o provider_name]

\* get_provider: the configured provider, and the default one when there is
\* no ai_config row, when the lookup raises or when the configured one raises
GetProvider(e) ==
    IF e.ai_config # None /\ CreateProvider(e, e.ai_config).ok
    THEN CreateProvider(e, e.ai_config)
    ELSE CreateProvider(e, "anthropic")

MappingSuggestion(csv_column, db_field, confidence, reasoning) ==
    [csv_column |-> csv_column, db_field |-> db_field, confidence |-> confidence,
     reasoning |-> reasoning]

\* what the remote model can answer, or fail to
OracleOutcomes == {"ok", "not_json", "bad_confidence", "transport"}

\* the except branch of suggest_column_mappings
ParsingFailed(csv_headers) ==
    [k \in 1..Len(csv_headers) |->
        MappingSuggestion(csv_headers[k], None, 0, "AI response parsing failed")]

\* the answer of a cooperative oracle: the first column is the first required
\* field, the others are to be skipped
OracleAnswer(csv_headers, required_fields) ==
    [k \in 1..Len(csv_headers) |->
        IF k = 1 /\ Len(required_fields) > 0
        THEN MappingSuggestion(csv_headers[k], required_fields[1], 90, "likely match")
        ELSE MappingSuggestion(csv_headers[k], None, 30, "no match")]

\* provider.suggest_column_mappings(...): whether the API was called, and
\* the list returned or the exception raised
SuggestColumnMappings(provider_name, csv_headers, column_samples, required_fields, outcome) ==
    IF provider_name = "anthropic" /\ column_samples
    THEN [called |-> FALSE, raised |-> "TypeError",
          text |-> "suggest_column_mappings() got an unexpected keyword argument 'column_samples'"]
    ELSE CASE outcome = "transport" ->
                [called |-> TRUE, raised |-> "APIConnectionError", text |-> "Connection error."]
           [] outcome = "bad_confidence" ->
                [called |-> TRUE, raised |-> "ValueError",
                 text |-> "could not convert string to float: 'high'"]
           [] outcome = "not_json" ->
                [called |-> TRUE, raised |-> None, suggestions |-> ParsingFailed(csv_headers)]
           [] outcome = "ok" ->
                [called |-> TRUE, raised |-> None,
                 suggestions |-> OracleAnswer(csv_headers, required_fields)]

----------------------------------------------------------------------------
(* Analyze: GenericImportService.analyze and the analyze_csv handler of    *)
(* routes/import_routes.py                                                 *)

PARTS_CONFIG ==
    [module_name |-> "parts",
     table_name |-> "parts",
     schema |-> <<[name |-> "part_number", type |-> "string", required |-> TRUE],
                  [name |-> "customer_code", type |-> "string", required |-> FALSE],
                  [name |-> "description", type |-> "string", required |-> FALSE],
                  [name |-> "material_cost", type |-> "number", required |-> FALSE],
                  [name |-> "notes", type |-> "string", required |-> FALSE]>>,
     unique_fields |-> <<>>,
     default_values |-> <<>>,
     column_pair_config |-> TRUE,
     pre_insert_transform |-> TRUE,
     company_id_field |-> "company_id"]

ConfigOf(module_name) ==
    CASE module_name = "customers" -> CUSTOMERS_CONFIG
      [] module_name = "parts" -> PARTS_CONFIG

\* what one analyze call did
Trace(limiter, detected, classified, provider, oracle, saved) ==
    [limiter |-> limiter, detected |-> detected, classified |-> classified,
     provider |-> provider, oracle |-> oracle, saved |-> saved]

\* result of an analyze call: the response, the cache and the limiter it
\* leaves behind, and what it did
Analyzed(response, files, reqs, did) ==
    [response |-> response, cache |-> files, requests |-> reqs, trace |-> did]

\* variant: the column limit is not applied
PrefilterColumnsUnlimited(headers, sample_rows, skip_columns) ==
    LET candidates == SelectSeq(Indices(headers), LAMBDA i : headers[i] \notin skip_columns)
        IsEmpty(i) == Len(NonEmpty(ColumnValues(sample_rows, i, Len(sample_rows)))) = 0
        empty == SelectSeq(candidates, IsEmpty)
        kept == SelectSeq(candidates, LAMBDA i : ~IsEmpty(i))
    IN [filtered_headers |-> [k \in 1..Len(kept) |-> headers[kept[k]]],
        filtered_sample_rows |->
            [n \in 1..Len(sample_rows) |->
                [k \in 1..Len(kept) |->
                    IF kept[k] <= Len(sample_rows[n]) THEN sample_rows[n][kept[k]] ELSE ""]],
        prefiltered_classifications |->
            [k \in 1..Len(empty) |->
                ColumnClassification(headers[empty[k]], None, 95,
                    "Auto-skip: all sample values empty", FALSE)]]

\* _prefilter_columns
PrefilterColumns(headers, sample_rows, skip_columns) ==
    LET candidates == SelectSeq(Indices(headers), LAMBDA i : headers[i] \notin skip_columns)
        IsEmpty(i) == Len(NonEmpty(ColumnValues(sample_rows, i, Len(sample_rows)))) = 0
        empty == SelectSeq(candidates, IsEmpty)
        non_empty_indices == SelectSeq(candidates, LAMBDA i : ~IsEmpty(i))
        kept == IF Len(non_empty_indices) > MAX_COLUMNS_FOR_AI
                THEN SubSeq(non_empty_indices, 1, MAX_COLUMNS_FOR_AI)
                ELSE non_empty_indices
        over == IF Len(non_empty_indices) > MAX_COLUMNS_FOR_AI
                THEN SubSeq(non_empty_indices, MAX_COLUMNS_FOR_AI + 1, Len(non_empty_indices))
                ELSE <<>>
    IN [filtered_headers |-> [k \in 1..Len(kept) |-> headers[kept[k]]],
        filtered_sample_rows |->
            [n \in 1..Len(sample_rows) |->
                [k \in 1..Len(kept) |->
                    IF kept[k] <= Len(sample_rows[n]) THEN sample_rows[n][kept[k]] ELSE ""]],
        prefiltered_classifications |->
            [k \in 1..Len(empty) |->
                ColumnClassification(headers[empty[k]], None, 95,
                    "Auto-skip: all sample values empty", FALSE)]
            \o [k \in 1..Len(over) |->
                ColumnClassification(headers[over[k]], None, 60,
                    "Auto-skip: column limit exceeded (max "
                        \o ToString(MAX_COLUMNS_FOR_AI) \o ")", FALSE)]]

\* one entry of the mappings list of the response
MappingEntry(c, reasoning) ==
    [csv_column |-> c.csv_column, db_field |-> c.db_field, confidence |-> c.confidence,
     reasoning |-> reasoning, needs_review |-> c.confidence < 70]

\* the pair columns in the order the iteration over the set yields them
PairColumnsInOrder(headers, pair_columns, set_order) ==
    LET forward == SelectSeq(headers, LAMBDA h : h \in pair_columns)
        first == SelectSeq(Indices(forward),
                    LAMBDA i : \A j \in 1..(i - 1) : forward[j] # forward[i])
        distinct == [k \in 1..Len(first) |-> forward[first[k]]]
    IN IF set_order = "forward" THEN distinct
       ELSE [k \in 1..Len(distinct) |-> distinct[Len(distinct) + 1 - k]]

\* step 4 of analyze: combine the rule-based and the AI results
AnalyzeBody(config, headers, resolved, ai_suggestions, ai_provider_name, detected, set_order) ==
    LET entries == [k \in 1..Len(resolved) |-> MappingEntry(resolved[k], resolved[k].reasoning)]
                   \o [k \in 1..Len(ai_suggestions) |->
                         MappingEntry(ai_suggestions[k], ai_suggestions[k].reasoning \o " (AI)")]
        discarded == SelectSeq(entries, LAMBDA m : m.db_field = None)
        discarded_columns == [k \in 1..Len(discarded) |-> discarded[k].csv_column]
        pair_columns == SelectSeq(PairColumnsInOrder(headers, detected.matched_columns, set_order),
                                  LAMBDA col : col \notin Range(discarded_columns))
        mapped_db_fields == {entries[k].db_field : k \in DOMAIN entries} \ {None}
        base == [mappings |-> entries,
                 unmapped_required |-> SelectSeq(GetRequiredFields(config),
                                                 LAMBDA f : f \notin mapped_db_fields),
                 discarded_columns |-> discarded_columns \o pair_columns,
                 ai_provider |-> ai_provider_name]
    IN IF config.column_pair_config
       THEN [column_pairs |-> [k \in 1..Len(detected.pairs) |->
                                 [qty_column |-> detected.pairs[k][1],
                                  price_column |-> detected.pairs[k][2]]]] @@ base
       ELSE base

\* variant: a throttled call is answered with an empty result
TooManyRequestsEmptyResult ==
    HttpOk([mappings |-> <<>>, unmapped_required |-> <<>>, discarded_columns |-> <<>>,
            ai_provider |-> "rule-based"])

TooManyRequests == HttpError(429, "Too many requests. Please wait before trying again.")

\* [filtered_headers.index(h) for h in uncertain_headers] and the sample of
\* these columns in the first five rows
UncertainSample(filtered_headers, filtered_sample_rows, uncertain_headers) ==
    LET index(h) == CHOOSE i \in DOMAIN filtered_headers :
                        /\ filtered_headers[i] = h
                        /\ \A j \in 1..(i - 1) : filtered_headers[j] # h
        rows == SubSeq(filtered_sample_rows, 1,
                       IF Len(filtered_sample_rows) < 5 THEN Len(filtered_sample_rows) ELSE 5)
    IN [n \in 1..Len(rows) |->
          [k \in 1..Len(uncertain_headers) |->
              IF index(uncertain_headers[k]) <= Len(rows[n])
              THEN rows[n][index(uncertain_headers[k])] ELSE ""]]

\* GenericImportService.analyze
GenericAnalyze(config, e, files, reqs, t_now, r, outcome, set_order) ==
    LET dir == config.module_name
        cache_key == CacheKey(config.module_name \o ":", r.company_id, r.headers)
        cached == GetCachedResponse(e, files, dir, cache_key)
        limit == check("service", reqs, r.company_id, t_now)
        detected == IF config.column_pair_config
                    THEN DetectColumnPairs(r.headers)
                    ELSE [pairs |-> <<>>, matched_columns |-> {}]
        pre == PrefilterColumns(r.headers, r.sample_rows, detected.matched_columns)
        cls == ClassifyColumnsGeneric(pre.filtered_headers, pre.filtered_sample_rows,
                                      config.module_name, detected.matched_columns)
        resolved == pre.prefiltered_classifications \o cls.resolved
        provider == GetProvider(e)
        sent == [csv_headers |-> cls.uncertain_headers,
                 sample_rows |-> UncertainSample(pre.filtered_headers,
                                    pre.filtered_sample_rows, cls.uncertain_headers),
                 column_samples |-> FALSE, outcome |-> outcome]
        answer == SuggestColumnMappings(provider.provider_name, cls.uncertain_headers, FALSE,
                                        GetRequiredFields(config), outcome)
        rules_only == AnalyzeBody(config, r.headers, resolved, <<>>, "rule-based",
                                  detected, set_order)
        hybrid == AnalyzeBody(config, r.headers, resolved, answer.suggestions,
                              "hybrid (" \o provider.provider_name \o ")", detected, set_order)
    IN
    IF cached # <<>>
    THEN Analyzed(HttpOk(cached[1]), files, reqs, Trace(FALSE, FALSE, FALSE, FALSE, <<>>, FALSE))
    ELSE IF ~limit.allowed
    THEN Analyzed(TooManyRequests, files, limit.requests,
                  Trace(TRUE, FALSE, FALSE, FALSE, <<>>, FALSE))
    ELSE IF Len(cls.uncertain_headers) = 0
    THEN Analyzed(HttpOk(rules_only),
                  SaveToCache(e, files, dir, cache_key, rules_only), limit.requests,
                  Trace(TRUE, config.column_pair_config, TRUE, FALSE, <<>>, TRUE))
    ELSE IF ~provider.ok
    THEN Analyzed(HttpError(500, provider.error), files, limit.requests,
                  Trace(TRUE, config.column_pair_config, TRUE, TRUE, <<>>, FALSE))
    ELSE IF answer.raised = "ValueError"
    THEN Analyzed(HttpError(500, answer.text), files, limit.requests,
                  Trace(TRUE, config.column_pair_config, TRUE, TRUE, <<sent>>, FALSE))
    ELSE IF answer.raised # None
    THEN Analyzed(HttpError(500, "Error analyzing CSV: " \o answer.text), files,
                  limit.requests,
                  Trace(TRUE, config.column_pair_config, TRUE, TRUE,
                        IF answer.called THEN <<sent>> ELSE <<>>, FALSE))
    ELSE Analyzed(HttpOk(hybrid),
                  SaveToCache(e, files, dir, cache_key, hybrid), limit.requests,
                  Trace(TRUE, config.column_pair_config, TRUE, TRUE, <<sent>>, TRUE))

\* analyze_csv of the customers route: every column goes to the oracle
CustomersAnalyze(e, files, reqs, t_now, r, outcome) ==
    LET dir == ""
        cache_key == CacheKey("", r.company_id, r.headers)
        cached == GetCachedResponse(e, files, dir, cache_key)
        limit == check("utils", reqs, r.company_id, t_now)
        provider == GetProvider(e)
        sent == [csv_headers |-> r.headers, sample_rows |-> r.sample_rows,
                 column_samples |-> TRUE, outcome |-> outcome]
        answer == SuggestColumnMappings(provider.provider_name, r.headers, TRUE,
                                        GetRequiredFields(CUSTOMERS_CONFIG), outcome)
        response == AnalyzeBody(CUSTOMERS_CONFIG, r.headers, <<>>, answer.suggestions,
                                provider.provider_name,
                                [pairs |-> <<>>, matched_columns |-> {}], "forward")
    IN
    IF cached # <<>>
    THEN Analyzed(HttpOk(cached[1]), files, reqs, Trace(FALSE, FALSE, FALSE, FALSE, <<>>, FALSE))
    ELSE IF ~limit.allowed
    THEN Analyzed(TooManyRequests, files, limit.requests,
                  Trace(TRUE, FALSE, FALSE, FALSE, <<>>, FALSE))
    ELSE IF ~provider.ok
    THEN Analyzed(HttpError(500, provider.error), files, limit.requests,
                  Trace(TRUE, FALSE, FALSE, TRUE, <<>>, FALSE))
    ELSE IF answer.raised = "ValueError"
    THEN Analyzed(HttpError(500, answer.text), files, limit.requests,
                  Trace(TRUE, FALSE, FALSE, TRUE, <<sent>>, FALSE))
    ELSE IF answer.raised # None
    THEN Analyzed(HttpError(500, "Error analyzing CSV: " \o answer.text), files,
                  limit.requests,
                  Trace(TRUE, FALSE, FALSE, TRUE,
                        IF answer.called THEN <<sent>> ELSE <<>>, FALSE))
    ELSE Analyzed(HttpOk(response),
                  SaveToCache(e, files, dir, cache_key, response), limit.requests,
                  Trace(TRUE, FALSE, FALSE, TRUE, <<sent>>, TRUE))

----------------------------------------------------------------------------
(* The analyze calls and the deployments the model draws from *)

MaxAnalyzeCalls == 2    \* analyze calls in one behaviour

\* sample rows of a file with n columns
SampleRows(n, pattern) ==
    CASE pattern = "varied" -> <<[k \in 1..n |-> "a"], [k \in 1..n |-> "b"]>>
      [] pattern = "last_blank" ->
            <<[k \in 1..n |-> IF k = n THEN "" ELSE "a"],
              [k \in 1..n |-> IF k = n THEN " " ELSE "b"]>>
      [] pattern = "none" -> <<>>

Wide(n) == [k \in 1..n |-> FieldName(k)]

AnalyzeRequest(company_id, headers, pattern) ==
    [company_id |-> company_id, headers |-> headers,
     sample_rows |-> SampleRows(Len(headers), pattern)]

AnalyzeRequests(module_name) ==
    IF module_name = "customers"
    THEN {AnalyzeRequest(company_id, <<"Customer Code", "Company Name", "City",
                                        "Internal Notes">>, "last_blank") :
             company_id \in Keys}
         \cup {AnalyzeRequest("t1", <<"custom1", "Color">>, "varied"),
               AnalyzeRequest("t1", <<"Color", "custom1">>, "varied")}
    ELSE {AnalyzeRequest(company_id, <<"Part Number", "Part Weight", "qty1", "price1">>,
                         "varied") : company_id \in Keys}
         \cup {AnalyzeRequest("t1", <<"qty1", "price1", "qty2", "price2">>, "varied"),
               AnalyzeRequest("t1", <<"created_at", "custom1", "qty3">>, "last_blank"),
               AnalyzeRequest("t1", Wide(MaxWide), "varied")}

\* the deployments: which handler serves analyze and with which module
\* configuration, whether AI_CACHE_ENABLED is set, which API keys are in the
\* environment, which provider the ai_config row of the tenants names, and
\* the order in which this process iterates over a set of strings
Deployment(handler, module_name, cache_enabled, api_keys, ai_config, set_order) ==
    [handler |-> handler, module_name |-> module_name, cache_enabled |-> cache_enabled,
     api_keys |-> api_keys, ai_config |-> ai_config, set_order |-> set_order]

Deployments ==
    {Deployment(h[1], h[2], c[1], c[2], c[3], "forward") :
        h \in {<<"customers", "customers">>, <<"generic", "customers">>,
               <<"generic", "parts">>},
        c \in {<<TRUE, {"anthropic"}, None>>, <<TRUE, {"openai"}, "openai">>,
               <<TRUE, {"anthropic"}, "openai">>, <<TRUE, {}, None>>,
               <<TRUE, {}, "watson">>, <<FALSE, {"openai"}, "openai">>}}
    \cup {Deployment("generic", "parts", TRUE, {"anthropic"}, None, "reverse")}

InitAnalyze ==
    /\ env \in Deployments
    /\ cache = {}
    /\ areq = <<>>
    /\ aresp = NoResponse
    /\ trace = <<>>
    /\ acount = 0
    /\ call = <<>>
    /\ ret = <<>>
    /\ rl = IF env.handler = "customers" THEN "utils" ELSE "service"
    \* the tenant t1 may have been admitted before, by calls whose oracle failed
    /\ requests \in {[k \in Keys |-> IF k = "t1" THEN [j \in 1..n |-> 0] ELSE <<>>] :
                        n \in 0..MaxRequests}
    /\ now = 0
    /\ admitted = <<>>
    /\ lastCheck = <<>>
    /\ threads = <<>>
    /\ lock = <<>>
    /\ PipeIdle

\* the analyze handler of the deployment
AnalyzeOf(e, files, reqs, t_now, r, outcome) ==
    IF e.handler = "customers"
    THEN CustomersAnalyze(e, files, reqs, t_now, r, outcome)
    ELSE GenericAnalyze(ConfigOf(e.module_name), e, files, reqs, t_now, r, outcome,
                        e.set_order)

\* a client calls analyze; the oracle answers, or fails, as it pleases
Analyze ==
    /\ acount < MaxAnalyzeCalls
    /\ \E r \in AnalyzeRequests(env.module_name), outcome \in OracleOutcomes :
          \E res \in {AnalyzeOf(env, cache, requests, now, r, outcome)} :
             /\ areq' = r
             /\ aresp' = res.response
             /\ cache' = res.cache
             /\ requests' = res.requests
             /\ trace' = res.trace
    /\ acount' = acount + 1
    /\ UNCHANGED <<env, call, ret, rl, now, admitted, lastCheck, threads, lock, pipeVars>>

NextAnalyze == Analyze

SpecAnalyze == InitAnalyze /\ [][NextAnalyze]_vars

----------------------------------------------------------------------------
(* The analyze cache on a file system that can fail *)

MaxCacheCalls == 2      \* analyze calls in one behaviour with a failing disk

\* files with the same header names in another order and with other samples,
\* and the same file of another tenant
CacheRequests(module_name) ==
    IF module_name = "customers"
    THEN {AnalyzeRequest("t1", <<"custom1", "Color">>, "varied"),
          AnalyzeRequest("t1", <<"Color", "custom1">>, "varied"),
          AnalyzeRequest("t1", <<"Color", "custom1">>, "last_blank"),
          AnalyzeRequest("t2", <<"Color", "custom1">>, "varied")}
    ELSE {AnalyzeRequest("t1", <<"Part Number", "custom1", "qty1", "price1">>, "varied"),
          AnalyzeRequest("t1", <<"qty1", "Part Number", "price1", "custom1">>, "varied"),
          AnalyzeRequest("t1", <<"qty1", "Part Number", "price1", "custom1">>, "last_blank"),
          AnalyzeRequest("t2", <<"Part Number", "custom1", "qty1", "price1">>, "varied")}

CacheDeployments ==
    {Deployment(h[1], h[2], c[1], c[2], c[3], "forward") :
        h \in {<<"customers", "customers">>, <<"generic", "customers">>,
               <<"generic", "parts">>},
        c \in {<<TRUE, {"openai"}, "openai">>, <<TRUE, {}, None>>,
               <<FALSE, {"openai"}, "openai">>}}

InitCache ==
    /\ env \in CacheDeployments
    /\ cache = {}
    /\ areq = <<>>
    /\ aresp = NoResponse
    /\ trace = <<>>
    /\ acount = 0
    /\ call = <<>>
    /\ ret = <<>>
    /\ rl = IF env.handler = "customers" THEN "utils" ELSE "service"
    /\ requests = [k \in Keys |-> <<>>]
    /\ now = 0
    /\ admitted = <<>>
    /\ lastCheck = <<>>
    /\ threads = <<>>
    /\ lock = <<>>
    /\ PipeIdle

\* a client calls analyze; the oracle answers or is out of reach, and the
\* write of the cache file succeeds or fails
AnalyzeOnDisk ==
    /\ acount < MaxCacheCalls
    /\ \E r \in CacheRequests(env.module_name), outcome \in {"ok", "transport"},
          disk \in {"ok", "none", "partial"} :
          \E res \in {AnalyzeOf(env @@ [disk |-> disk], cache, requests, now, r, outcome)} :
             /\ areq' = r
             /\ aresp' = res.response
             /\ cache' = res.cache
             /\ requests' = res.requests
             /\ trace' = res.trace
    /\ acount' = acount + 1
    /\ UNCHANGED <<env, call, ret, rl, now, admitted, lastCheck, threads, lock, pipeVars>>

NextCache == AnalyzeOnDisk

SpecCache == InitCache /\ [][NextCache]_vars

----------------------------------------------------------------------------
(* Properties of execute *)

\* C1: in every execute (generic service, customers, parts and resources
\* routes), when the validation execute re-runs on the store of that moment
\* reports has_conflicts and skip_conflicts is false, the call answers 400
\* and writes nothing: no write call is issued, the store is unchanged (no
\* record inserted, no resource group created).
C1_GateBlocksEveryWrite ==
    [][(pc' = "done" /\ ~req'.skip_conflicts) =>
       \A fresh \in {ValidateOf(impl, req', store)} :
         (fresh.status = 200 /\ fresh.body.has_conflicts)
         => (/\ eresp'.status = 400
             /\ writes' = <<>>
             /\ store' = store
             /\ nextId' = nextId)]_vars

\* a resources execute that had groups to create is stopped by the gate
C1_Witness ==
    /\ pc = "done"
    /\ impl = "resources"
    /\ req.create_groups
    /\ ~req.skip_conflicts
    /\ ResourcesValidate(req, store).has_conflicts
    /\ ResourcesValidate(req, store).groups_to_create # <<>>
    /\ eresp = HttpError(400, ConflictsDetail)
    /\ writes = <<>>


\* C2: when execute passes the conflict gate (skip_conflicts, or a fresh
\* validation without conflicts), the records it hands to the store are one
\* for each row whose number is not in the skip set of the fresh validation
\* (conflicted rows united with errored rows), in input order, in at most one
\* bulk insert and none when no row is left; when the insert does not raise
\* the response reports skipped_count = size of the skip set and
\* imported_count = the number of records the store returned, so that when
\* the store returns them all the two counts add up to the number of rows and
\* equal valid_rows_count and skipped_rows_count of validate.
C2_RecordsAndCounts ==
    [][pc' = "done" =>
       \A fresh \in {ValidateOf(impl, req', store)} :
         (/\ fresh.status = 200
          /\ (req'.skip_conflicts \/ ~fresh.body.has_conflicts))
         => \A skip \in {{fresh.body.conflicts[k].row_number :
                              k \in DOMAIN fresh.body.conflicts}
                          \cup {fresh.body.validation_errors[k].row_number :
                                   k \in DOMAIN fresh.body.validation_errors}} :
            \A kept \in {SelectSeq([n \in 1..Len(req'.rows) |-> n],
                                   LAMBDA n : n \notin skip)} :
            LET v == fresh.body
                rows == req'.rows
                table == IF impl = "generic" THEN "customers" ELSE impl
                field == CASE impl = "parts" -> "part_number"
                           [] impl = "resources" -> "name"
                           [] OTHER -> "customer_code"
                column == ReverseGet(req'.mappings, field)
                inserts == SelectSeq(writes', LAMBDA w : w.table = table)
            IN /\ Len(inserts) = (IF Len(kept) = 0 THEN 0 ELSE 1)
               /\ \A w \in Range(inserts) :
                      /\ Len(w.records) = Len(kept)
                      /\ \A k \in 1..Len(kept) :
                             w.records[k][field] = Strip(RowGet(rows[kept[k]], column))
               /\ (\A w \in Range(inserts) : w.outcome.kind # "raise")
                      => /\ eresp'.status = 200
                         /\ eresp'.body.success
                         /\ eresp'.body.skipped_count = Cardinality(skip)
                         /\ eresp'.body.imported_count =
                                (IF \E w \in Range(inserts) : w.outcome.kind = "ok"
                                 THEN Len(kept) ELSE 0)
                         /\ (Len(kept) = 0 \/ \E w \in Range(inserts) : w.outcome.kind = "ok")
                                => /\ eresp'.body.imported_count
                                          + eresp'.body.skipped_count = Len(rows)
                                   /\ eresp'.body.imported_count = v.valid_rows_count
                                   /\ eresp'.body.skipped_count = v.skipped_rows_count]_vars

\* two rows, one skipped and one inserted and returned by the store
C2_Witness ==
    /\ pc = "done"
    /\ req.skip_conflicts
    /\ Len(req.rows) = 2
    /\ eresp.status = 200
    /\ eresp.body.imported_count = 1
    /\ eresp.body.skipped_count = 1
    /\ Len(writes) = 1
    /\ Len(writes[1].records) = 1


----------------------------------------------------------------------------
(* Properties of validate *)

\* the unique fields of an implementation, in the order its checks run
UniqueFieldsOf(i) ==
    IF i = "resources" THEN <<"name">> ELSE <<"customer_code", "name">>

\* the unique field an intra-file duplicate conflict is about, None for a
\* conflict of another type
CsvDuplicateField(i, c) ==
    CASE i = "customers" ->
            (CASE c.conflict_type = "csv_duplicate_code" -> "customer_code"
               [] c.conflict_type = "csv_duplicate_name" -> "name"
               [] OTHER -> None)
      [] i = "generic" -> IF c.conflict_type = "csv_duplicate" THEN c.field ELSE None
      [] i = "resources" -> IF c.conflict_type = "csv_duplicate" THEN "name" ELSE None

\* the other rows an intra-file duplicate conflict lists
CsvDuplicateRows(i, c) == IF i = "generic" THEN c.message ELSE c.existing_value

\* the unique field a store duplicate conflict is about, None for a conflict
\* of another type
StoreDuplicateField(i, c) ==
    CASE i = "customers" ->
            (CASE c.conflict_type = "duplicate_code" -> "customer_code"
               [] c.conflict_type = "duplicate_name" -> "name"
               [] OTHER -> None)
      [] i = "generic" ->
            IF c.conflict_type \in {"duplicate_customer_code", "duplicate_name"}
            THEN c.field ELSE None
      [] i = "resources" -> IF c.conflict_type = "duplicate_name" THEN "name" ELSE None

\* the id of the existing record a store duplicate conflict carries
StoreDuplicateId(i, c) ==
    CASE i = "customers" -> c.existing_customer_id
      [] i = "generic" -> c.existing_id
      [] i = "resources" -> c.existing_resource_id

\* the trimmed value of a row for a unique field
ValueOf(row, field) == Strip(RowGet(row, ReverseGet(req.mappings, field)))

\* the rows other than n that carry, case-insensitively, the value of row n
\* for the field
SameValueRows(field, n) ==
    SelectSeq(Indices(req.rows),
              LAMBDA m : /\ m # n
                         /\ ReverseGet(req.mappings, field) # None
                         /\ ValueOf(req.rows[n], field) # ""
                         /\ ValueOf(req.rows[m], field) # ""
                         /\ Lower(ValueOf(req.rows[m], field))
                               = Lower(ValueOf(req.rows[n], field)))

Errored(n) == \E e \in Range(vresp.body.validation_errors) : e.row_number = n

Validated == pc = "validated" /\ vresp.status = 200

\* C3: in every validate response a row with a ValidationError has no
\* Conflict entry: no row is in both lists.
C3_ErroredRowHasNoConflict ==
    Validated =>
        \A e \in Range(vresp.body.validation_errors) :
            \A c \in Range(vresp.body.conflicts) : c.row_number # e.row_number

\* C4: every validate response holds at most one Conflict for a row.
C4_AtMostOneConflictPerRow ==
    Validated =>
        \A j, k \in DOMAIN vresp.body.conflicts :
            j # k => vresp.body.conflicts[j].row_number # vresp.body.conflicts[k].row_number


SameValueRecords(field, n) ==
    {e \in Range(store[IF impl = "resources" THEN "resources" ELSE "customers"]) :
        /\ e.company_id = req.company_id
        /\ ReverseGet(req.mappings, field) # None
        /\ ValueOf(req.rows[n], field) # ""
        /\ Lower(e[field]) = Lower(ValueOf(req.rows[n], field))}

\* C6: (customers, generic service, resources) a row without a
\* ValidationError that shares no unique-field value with another row of the
\* file receives a store duplicate conflict if and only if its value for a
\* unique field equals, case-insensitively, that of a record of the same
\* tenant; the conflict carries the id of such a record, so a record of
\* another tenant never causes one.
C6_StoreDuplicateIffSameTenantRecord ==
    (Validated /\ impl \in {"customers", "generic", "resources"}) =>
        \A n \in DOMAIN req.rows :
            (/\ ~Errored(n)
             /\ \A f \in Range(UniqueFieldsOf(impl)) : SameValueRows(f, n) = <<>>)
            => /\ (\E f \in Range(UniqueFieldsOf(impl)) : SameValueRecords(f, n) # {})
                  <=> (\E c \in Range(vresp.body.conflicts) :
                          c.row_number = n /\ StoreDuplicateField(impl, c) # None)
               /\ \A c \in Range(vresp.body.conflicts) :
                      (c.row_number = n /\ StoreDuplicateField(impl, c) # None)
                      => StoreDuplicateId(impl, c) \in
                            {e.id : e \in SameValueRecords(StoreDuplicateField(impl, c), n)}
               /\ \A c \in Range(vresp.body.conflicts) :
                      c.row_number = n => StoreDuplicateField(impl, c) # None

\* one row collides with a record of the tenant and carries its id, the
\* other row equals a record of another tenant and stays valid
C6_Witness ==
    /\ Validated
    /\ impl = "customers"
    /\ req.rows = <<CustomerRow(" A1", "Y"), CustomerRow("b2", "x")>>
    /\ OtherTenantCustomer \in Range(store.customers)
    /\ Len(vresp.body.conflicts) = 1
    /\ vresp.body.conflicts[1].row_number = 1
    /\ vresp.body.conflicts[1].conflict_type = "duplicate_code"
    /\ vresp.body.conflicts[1].existing_customer_id = "e1"
    /\ vresp.body.valid_rows_count = 1

\* C7: in every validate response skipped_rows_count is the number of rows
\* with a Conflict or a ValidationError, valid_rows_count the number of rows
\* minus that, conflict_rows_count the number of distinct rows with a
\* Conflict, error_rows_count the number of distinct rows with a
\* ValidationError, and has_conflicts holds exactly when the conflicts list
\* is not empty.
C7_Counts ==
    Validated =>
        LET conflicted == {c.row_number : c \in Range(vresp.body.conflicts)}
            errored == {e.row_number : e \in Range(vresp.body.validation_errors)}
        IN /\ vresp.body.skipped_rows_count = Cardinality(conflicted \cup errored)
           /\ vresp.body.valid_rows_count
                 = Len(req.rows) - vresp.body.skipped_rows_count
           /\ vresp.body.conflict_rows_count = Cardinality(conflicted)
           /\ vresp.body.error_rows_count = Cardinality(errored)
           /\ vresp.body.has_conflicts <=> (vresp.body.conflicts # <<>>)

\* a response with a conflicted row, an errored row and a valid row
C7_Witness ==
    /\ Validated
    /\ Len(req.rows) = 3
    /\ vresp.body.conflict_rows_count = 1
    /\ vresp.body.error_rows_count = 1
    /\ vresp.body.valid_rows_count = 1
    /\ vresp.body.skipped_rows_count = 2
    /\ vresp.body.has_conflicts

----------------------------------------------------------------------------
(* Properties of execute against a store that moves or fails *)

\* row n carries the key of the record the other request inserts
CollidesWithRace(n) ==
    CASE impl \in {"customers", "generic"} ->
            Lower(ValueOf(req.rows[n], "customer_code"))
                = Lower(RaceRecord(impl).record.customer_code)
      [] impl = "resources" ->
            Lower(ValueOf(req.rows[n], "name")) = Lower(RaceRecord(impl).record.name)
      [] impl = "parts" ->
            /\ Lower(ValueOf(req.rows[n], "part_number"))
                   = Lower(RaceRecord(impl).record.part_number)
            /\ \/ req.customer_match_mode = "all_generic"
               \/ /\ req.customer_match_mode = "by_column"
                  /\ ValueOf(req.rows[n], "customer_code") = ""

\* the number of records of the table that carry the key of row n
KeyCount(st, n) ==
    LET table == RaceRecord(impl).table
        field == IF impl \in {"customers", "generic"} THEN "customer_code"
                 ELSE IF impl = "parts" THEN "part_number" ELSE "name"
    IN Cardinality({k \in DOMAIN st[table] :
                       Lower(st[table][k][field]) = Lower(ValueOf(req.rows[n], field))})

\* C8: execute validates again, on the store of its own moment: when a row
\* had neither Conflict nor ValidationError in the earlier validate response
\* and another request has since inserted a record with its key, an execute
\* with skip_conflicts skips the row (one more row skipped than validate
\* announced) and an execute without it answers 400 on the conflict gate;
\* either way no record with the key of the row is inserted.
C8_ExecuteValidatesAgain ==
    [][(pc = "raced" /\ pc' = "done" /\ vresp.status = 200) =>
       \A n \in DOMAIN req.rows :
          (/\ CollidesWithRace(n)
           /\ \A c \in Range(vresp.body.conflicts) : c.row_number # n
           /\ \A e \in Range(vresp.body.validation_errors) : e.row_number # n)
          => /\ KeyCount(store', n) = KeyCount(store, n)
             /\ \A w \in Range(writes') :
                   w.table = RaceRecord(impl).table
                   => \A rec \in Range(w.records) :
                         Lower(rec[IF impl \in {"customers", "generic"} THEN "customer_code"
                                   ELSE IF impl = "parts" THEN "part_number" ELSE "name"])
                            # Lower(ValueOf(req.rows[n],
                                    IF impl \in {"customers", "generic"} THEN "customer_code"
                                    ELSE IF impl = "parts" THEN "part_number" ELSE "name"))
             /\ IF req'.skip_conflicts
                THEN eresp'.status = 200
                        => eresp'.body.skipped_count = vresp.body.skipped_rows_count + 1
                ELSE /\ eresp' = HttpError(400, ConflictsDetail)
                     /\ writes' = <<>>
                     /\ store' = store]_vars

\* validate announced two valid rows, the other request took the key of
\* one, execute skipped it and inserted the other
C8_Witness ==
    /\ pc = "done"
    /\ req.skip_conflicts
    /\ Len(req.rows) = 2
    /\ vresp.status = 200
    /\ vresp.body.valid_rows_count = 2
    /\ RaceRecord(impl).record \in Range(store[RaceRecord(impl).table])
    /\ eresp.status = 200
    /\ eresp.body.skipped_count = 1
    /\ eresp.body.imported_count = 1

\* C9: when the bulk insert raises, a uniqueness violation (a text with
\* 23505 or "duplicate key") makes execute answer 400 and any other failure
\* makes it answer 500 with a fixed detail that holds none of the text of the
\* store error; there is no success response and no imported count, the
\* insert is not attempted again and nothing of the batch is in the store.
C9_InsertFailure ==
    [][pc' = "done" =>
       \A k \in DOMAIN writes' :
          (writes'[k].table # "resource_groups" /\ writes'[k].outcome.kind = "raise")
          => /\ IF \/ Contains(writes'[k].outcome.text, "23505")
                   \/ Contains(Lower(writes'[k].outcome.text), "duplicate key")
                THEN eresp'.status = 400
                ELSE /\ eresp'.status = 500
                     /\ eresp'.detail \in
                           {"Database error occurred during import. Please try again.",
                            "Database error occurred during import. Please try again or contact support if the problem persists."}
                     /\ ~Contains(eresp'.detail, writes'[k].outcome.text)
             /\ "body" \notin DOMAIN eresp'
             /\ k = Len(writes')
             /\ \A j \in DOMAIN writes' : writes'[j].table = writes'[k].table => j = k
             /\ store'[writes'[k].table] = store[writes'[k].table]]_vars

\* the store refuses the batch with a uniqueness violation and execute
\* answers 400
C9_Witness ==
    /\ pc = "done"
    /\ Len(writes) = 1
    /\ writes[1].outcome.kind = "raise"
    /\ Contains(writes[1].outcome.text, "23505")
    /\ eresp.status = 400
    /\ eresp.detail # ConflictsDetail

----------------------------------------------------------------------------
(* Properties of the rate limiter *)

\* C10: for each key, check admits a call exactly when fewer than
\* max_requests calls of that key were admitted less than a window ago,
\* whatever was rejected since and whatever happened on other keys; the list
\* recorded for a key holds admitted calls only (it is the tail of the
\* history of the admitted calls of the key) and never more than max_requests
\* of them.
C10_SlidingWindow ==
    /\ lastCheck # <<>> =>
          (lastCheck[1].allowed
             <=> Cardinality({k \in DOMAIN lastCheck[1].before :
                                 lastCheck[1].time - lastCheck[1].before[k] < WindowSeconds})
                    < MaxRequests)
    /\ rl # "none" =>
          \A key \in Keys :
              /\ Len(requests[key]) <= MaxRequests
              /\ Len(requests[key]) <= Len(admitted[key])
              /\ requests[key] = SubSeq(admitted[key],
                                        Len(admitted[key]) - Len(requests[key]) + 1,
                                        Len(admitted[key]))

\* a key that used up its window is admitted again once the window has
\* elapsed, while the other key has calls of its own in the list
C10_Witness ==
    /\ lastCheck # <<>>
    /\ lastCheck[1].allowed
    /\ lastCheck[1].key = "t1"
    /\ Len(lastCheck[1].before) >= MaxRequests
    /\ Len(requests["t1"]) = 1
    /\ Len(requests["t2"]) = MaxRequests

----------------------------------------------------------------------------
(* Calls of the two pure functions of classifier.py *)

MaxColumns == 2         \* columns of a classify_columns_generic call
MaxPairHeaders == 3     \* headers of a detect_column_pairs call
MaxSampleRows == 6      \* sample rows of a call, one more than the 5 looked at

ClassifyHeaders ==
    {"Customer Code", "City", "custom1", "Color", "id", "qty1", "Part Weight"}

SamplePatterns == {"blank", "varied", "constant", "twice", "late"}

\* the cells of one column down the sample rows
ColumnSamples(pattern, n) ==
    CASE pattern = "blank" -> IF n % 2 = 0 THEN " " ELSE ""
      [] pattern = "varied" -> IF n % 2 = 0 THEN "b" ELSE "a"
      [] pattern = "constant" -> IF n <= 3 THEN "a" ELSE ""
      [] pattern = "twice" -> IF n <= 2 THEN "a" ELSE ""
      [] pattern = "late" -> IF n <= 5 THEN "" ELSE "a"

\* a column is a header with the pattern of its cells: every header with
\* varied and with blank cells, the headers no pattern of a configuration
\* matches also with the other patterns
ClassifyColumns ==
    (ClassifyHeaders \X {"varied", "blank"})
    \cup ({"custom1", "Color"} \X (SamplePatterns \ {"varied", "blank"}))

ClassifyCalls(max_columns) ==
    {[op |-> "classify", module_name |-> module_name,
      headers |-> [k \in DOMAIN columns |-> columns[k][1]],
      sample_rows |-> [n \in 1..MaxSampleRows |->
                         [k \in DOMAIN columns |-> ColumnSamples(columns[k][2], n)]],
      skip_columns |-> skip_columns] :
        module_name \in {"customers", "parts", "resources"},
        columns \in UNION {[1..n -> ClassifyColumns] : n \in 1..max_columns},
        skip_columns \in {{}, {"qty1"}}}

PairHeaders == {"qty1", "price1", "Qty 1", "Price 1", "qty2", "price2", "qty3", "Color"}

DetectCalls(max_headers) ==
    {[op |-> "detect", headers |-> headers] :
        headers \in UNION {[1..n -> PairHeaders] : n \in 1..max_headers}}

InitColumns ==
    /\ call \in ClassifyCalls(MaxColumns) \cup DetectCalls(MaxPairHeaders)
    /\ ret = <<>>
    /\ env = <<>>
    /\ cache = {}
    /\ areq = <<>>
    /\ aresp = NoResponse
    /\ trace = <<>>
    /\ acount = 0
    /\ RlIdle
    /\ PipeIdle

Classify ==
    /\ call.op = "classify"
    /\ ret = <<>>
    /\ ret' = <<ClassifyColumnsGeneric(call.headers, call.sample_rows, call.module_name,
                                       call.skip_columns)>>
    /\ UNCHANGED <<env, cache, areq, aresp, trace, acount, call, rlVars, pipeVars>>

\* the detector is run, and run again on the same headers
DetectPairs ==
    /\ call.op = "detect"
    /\ Len(ret) < 2
    /\ ret' = Append(ret, DetectColumnPairs(call.headers))
    /\ UNCHANGED <<env, cache, areq, aresp, trace, acount, call, rlVars, pipeVars>>

NextColumns == Classify \/ DetectPairs

SpecColumns == InitColumns /\ [][NextColumns]_vars

----------------------------------------------------------------------------
(* The parts route and the generic service with the parts configuration, *)
(* on the same input                                                     *)

MaxPairs == 2           \* pricing column pairs of an execute request

QtyCells == {"", "5", "10", "0", "abc", "inf"}
PriceCells == {"", "2.5", "-1", "abc"}

PricedRow(q1, p1, q2, p2) ==
    ("qty1" :> q1) @@ ("price1" :> p1) @@ ("qty2" :> q2) @@ ("price2" :> p2)

PricedRows ==
    {PricedRow(q1, p1, q2, p2) : q1 \in QtyCells, p1 \in PriceCells,
                                 q2 \in QtyCells, p2 \in PriceCells}

PricingPairs ==
    {[qty_column |-> "qty1", price_column |-> "price1"],
     [qty_column |-> "qty2", price_column |-> "price2"]}

\* the first row of the file, the only row a caller of the generic execute
\* can hand over as row_data
FirstRow == PricedRow("10", "2.5", "", "")

\* the keyword arguments of the generic execute: pricing_pairs, and row_data
\* as no row or one row for the whole call
PricingCalls(max_pairs) ==
    {[op |-> "pricing", row |-> row, pricing_columns |-> pricing_columns,
      row_data |-> row_data] :
        row \in PricedRows,
        pricing_columns \in SeqsUpTo(PricingPairs, max_pairs),
        row_data \in {<<>>, <<FirstRow>>}}

ValidateCalls(max_rows) ==
    {[op |-> "validate", req |-> r, store |-> st] :
        r \in PartRequests(max_rows), st \in PartStores}

\* calls of the generic execute: the parts configuration with and without
\* keyword arguments, and the customers configuration with a mapped country
CountryCustomerMapping ==
    <<<<"Code", "customer_code">>, <<"Name", "name">>, <<"Country", "country">>>>

CountryRow(code, name, country) ==
    ("Code" :> code) @@ ("Name" :> name) @@ ("Country" :> country)

CountryRowValues ==
    {CountryRow("b2", "Y", "CA"), CountryRow("d4", "z", ""), CountryRow("d4", "z", " "),
     CountryRow("a1", "x", "CA"), CountryRow("", "x", "CA")}

ExecuteKwargs ==
    {[pricing_pairs |-> <<>>, row_data |-> <<>>],
     [pricing_pairs |-> <<[qty_column |-> "qty1", price_column |-> "price1"]>>,
      row_data |-> <<FirstRow>>],
     [pricing_pairs |-> <<[qty_column |-> "qty1", price_column |-> "price1"]>>,
      row_data |-> <<PricedRow("inf", "2.5", "", "")>>]}

ExecuteCalls(max_rows) ==
    {[op |-> "execute", config |-> PARTS_CONFIG, store |-> st,
      req |-> [company_id |-> Tenant, mappings |-> PartMapping, rows |-> rows,
               skip_conflicts |-> skip, kwargs |-> kwargs]] :
        rows \in SeqsUpTo(PartRowValues, max_rows), skip \in BOOLEAN,
        kwargs \in ExecuteKwargs, st \in PartStores}
    \cup
    {[op |-> "execute", config |-> CUSTOMERS_CONFIG, store |-> st,
      req |-> [company_id |-> Tenant, mappings |-> CountryCustomerMapping, rows |-> rows,
               skip_conflicts |-> skip]] :
        rows \in SeqsUpTo(CountryRowValues, max_rows), skip \in BOOLEAN,
        st \in CustomerStores}

InitParts ==
    /\ call \in PricingCalls(MaxPairs) \cup ValidateCalls(MaxExecRows)
                \cup ExecuteCalls(MaxExecRows)
    /\ ret = <<>>
    /\ env = <<>>
    /\ cache = {}
    /\ areq = <<>>
    /\ aresp = NoResponse
    /\ trace = <<>>
    /\ acount = 0
    /\ RlIdle
    /\ PipeIdle

Returned(key, value) ==
    /\ key \notin DOMAIN ret
    /\ ret' = ret @@ (key :> value)
    /\ UNCHANGED <<env, cache, areq, aresp, trace, acount, call, rlVars, pipeVars>>

PartsRoutePricing ==
    /\ call.op = "pricing"
    /\ Returned("route", RoutePricing(call.row, call.pricing_columns))

PartsGenericPricing ==
    /\ call.op = "pricing"
    /\ Returned("generic", PreInsertTransform(call.pricing_columns, call.row_data))

PartsRouteValidate ==
    /\ call.op = "validate"
    /\ Returned("route", PartsValidate(call.req, call.store))

PartsGenericValidate ==
    /\ call.op = "validate"
    /\ Returned("generic", HttpOk(GenericValidate(PARTS_CONFIG, call.req, call.store)))

\* GenericImportService(config).execute(...) under an outcome of the insert
PartsGenericExecute ==
    /\ call.op = "execute"
    /\ \E outcome \in InsertOutcomes :
          \E res \in {GenericExecute(call.config, call.req, call.store, 1, outcome)} :
             Returned("generic", res)

NextParts ==
    \/ PartsRoutePricing
    \/ PartsGenericPricing
    \/ PartsRouteValidate
    \/ PartsGenericValidate
    \/ PartsGenericExecute

SpecParts == InitParts /\ [][NextParts]_vars

----------------------------------------------------------------------------
(* Properties of analyze *)

\* the cache directory and the cache key of a request in the deployment
AnalyzeDir(e) == IF e.handler = "customers" THEN "" ELSE e.module_name

AnalyzeKey(e, r) ==
    CacheKey(IF e.handler = "customers" THEN "" ELSE e.module_name \o ":",
             r.company_id, r.headers)

\* the files that hold a response for the request
StoredFor(e, files, r) ==
    {f \in files : f.dir = AnalyzeDir(e) /\ f.key = AnalyzeKey(e, r)}

\* the tenant has used up its quota in the window that ends now
QuotaExhausted(company_id) ==
    Cardinality({i \in DOMAIN requests[company_id] :
                    now - requests[company_id][i] < WindowSeconds}) >= MaxRequests

AnalyzeCalled == acount' = acount + 1

NothingDone == Trace(FALSE, FALSE, FALSE, FALSE, <<>>, FALSE)

\* C11: an analyze call whose key is in the cache returns the stored
\* response and does nothing else: the limiter is not consulted and keeps
\* its state, the pair detector and the classifier do not run, no provider
\* is resolved, the oracle is not called and the cache is not written
C11_CacheHitDoesNothingElse ==
    [][(AnalyzeCalled /\ StoredFor(env, cache, areq') # {})
        => /\ \A f \in StoredFor(env, cache, areq') : aresp' = HttpOk(f.response)
           /\ requests' = requests
           /\ trace' = NothingDone
           /\ cache' = cache]_vars

\* a tenant whose quota is exhausted has just been served from the cache
C11_Witness ==
    /\ acount = MaxAnalyzeCalls
    /\ QuotaExhausted(areq.company_id)
    /\ StoredFor(env, cache, areq) # {}
    /\ trace = NothingDone
    /\ aresp.status = 200
    /\ Len(aresp.body.mappings) > 0

\* C12: on a cache miss with the quota of the tenant exhausted, analyze
\* answers 429 and nothing but the error: no classification, no provider,
\* no oracle call, no cache write, and the call is not recorded as admitted
C12_ThrottledBeforeClassification ==
    [][(AnalyzeCalled /\ StoredFor(env, cache, areq') = {}
            /\ QuotaExhausted(areq'.company_id))
        => /\ aresp'.status = 429
           /\ DOMAIN aresp' = {"status", "detail"}
           /\ trace' = Trace(TRUE, FALSE, FALSE, FALSE, <<>>, FALSE)
           /\ cache' = cache
           /\ requests' = requests]_vars

\* a call for headers that nobody analyzed before has just been throttled
C12_Witness ==
    /\ acount = MaxAnalyzeCalls
    /\ aresp.status = 429
    /\ cache # {}
    /\ StoredFor(env, cache, areq) = {}
    /\ Len(requests[areq.company_id]) = MaxRequests

\* the mappings the rules alone give the request of the generic analyze
RuleResolved(e, r) ==
    LET config == ConfigOf(e.module_name)
        detected == IF config.column_pair_config THEN DetectColumnPairs(r.headers)
                    ELSE [pairs |-> <<>>, matched_columns |-> {}]
        pre == PrefilterColumns(r.headers, r.sample_rows, detected.matched_columns)
        cls == ClassifyColumnsGeneric(pre.filtered_headers, pre.filtered_sample_rows,
                                      config.module_name, detected.matched_columns)
        resolved == pre.prefiltered_classifications \o cls.resolved
    IN [k \in 1..Len(resolved) |-> MappingEntry(resolved[k], resolved[k].reasoning)]

\* C13: when the oracle call fails in transport or its output cannot be
\* parsed, analyze still succeeds: each column sent gets a suggestion with
\* no db_field and confidence 0, after the rule-resolved mappings
C13_OracleFailureDegrades ==
    (/\ acount > 0
     /\ trace.oracle # <<>>
     /\ trace.oracle[1].outcome \in {"transport", "not_json"})
        => /\ aresp.status = 200
           /\ \A h \in Range(trace.oracle[1].csv_headers) :
                 \E k \in DOMAIN aresp.body.mappings :
                    /\ aresp.body.mappings[k].csv_column = h
                    /\ aresp.body.mappings[k].db_field = None
                    /\ aresp.body.mappings[k].confidence = 0
           /\ env.handler = "generic" =>
                 \A k \in DOMAIN RuleResolved(env, areq) :
                    aresp.body.mappings[k] = RuleResolved(env, areq)[k]

\* no provider can be created in the deployment
NoProvider(e) ==
    /\ "anthropic" \notin e.api_keys
    /\ ~(e.ai_config = "openai" /\ "openai" \in e.api_keys)

ConfigurationMessages ==
    {"ANTHROPIC_API_KEY is required", "OPENAI_API_KEY is required",
     "Unknown AI provider: watson"}

\* C14: when analyze resolves a provider and none can be created, it
\* answers 500 with the configuration message as detail and nothing else,
\* calls no oracle and writes nothing to the cache; the cache never holds a
\* failure
C14_ConfigurationFaultNotCached ==
    [][(AnalyzeCalled /\ trace'.provider /\ NoProvider(env))
        => /\ aresp'.status = 500
           /\ aresp'.detail \in ConfigurationMessages
           /\ DOMAIN aresp' = {"status", "detail"}
           /\ trace'.oracle = <<>>
           /\ ~trace'.saved
           /\ cache' = cache
           /\ \A f \in cache' : "mappings" \in DOMAIN f.response]_vars

\* the same call has failed twice for want of a provider
C14_Witness ==
    /\ acount = MaxAnalyzeCalls
    /\ NoProvider(env)
    /\ trace.provider
    /\ aresp.status = 500
    /\ StoredFor(env, cache, areq) = {}
    /\ Len(requests[areq.company_id]) >= 2

\* the columns of the request that have the header, and their sample values
ColumnsNamed(r, h) == {i \in DOMAIN r.headers : r.headers[i] = h}

AllBlank(r, i) ==
    \A n \in DOMAIN r.sample_rows :
        i <= Len(r.sample_rows[n]) => Strip(r.sample_rows[n][i]) = ""

\* C15: the generic analyze sends the oracle at most MAX_COLUMNS_FOR_AI
\* columns in one call, none of them claimed by the pair detector, none with
\* a header matching a universal skip pattern or a schema mapping pattern,
\* none all of whose sample values are blank
C15_OracleColumnsBounded ==
    (env # <<>> /\ acount > 0 /\ env.handler = "generic") =>
        \A k \in DOMAIN trace.oracle, detected \in {DetectColumnPairs(areq.headers)} :
            /\ Len(trace.oracle[k].csv_headers) <= MAX_COLUMNS_FOR_AI
            /\ \A h \in Range(trace.oracle[k].csv_headers) :
                  /\ ConfigOf(env.module_name).column_pair_config =>
                        h \notin detected.matched_columns
                  /\ ~MatchesUniversalSkip(HeaderNormalized(HeaderLower(h)))
                  /\ MappingPatternField(env.module_name,
                                         HeaderNormalized(HeaderLower(h))) = None
                  /\ \E i \in ColumnsNamed(areq, h) : ~AllBlank(areq, i)

\* a file wider than the limit has been analyzed with the oracle
C15_Witness ==
    /\ acount > 0
    /\ env.handler = "generic"
    /\ Len(areq.headers) > MAX_COLUMNS_FOR_AI
    /\ trace.oracle # <<>>
    /\ Len(trace.oracle[1].csv_headers) = MAX_COLUMNS_FOR_AI
    /\ aresp.status = 200

----------------------------------------------------------------------------
(* Properties of the classifier and of the pair detector *)

\* the sample values the classifier looks at for column i of the call
Looked(i) == ColumnValues(call.sample_rows, i, 5)

NonBlank(i) == {k \in DOMAIN Looked(i) : Strip(Looked(i)[k]) # ""}

\* the tiers of the decision process that apply to column i, numbered in
\* the order of the specification
TiersThatApply(i) ==
    LET h == call.headers[i]
        n == HeaderNormalized(HeaderLower(h))
    IN {t \in 1..8 :
          \/ t = 1 /\ h \in call.skip_columns
          \/ t = 2 /\ MatchesUniversalSkip(n)
          \/ t = 3 /\ MappingPatternField(call.module_name, n) # None
          \/ t = 4 /\ NonBlank(i) = {}
          \/ t = 5 /\ Cardinality(NonBlank(i)) >= 3
                   /\ Cardinality({Looked(i)[k] : k \in NonBlank(i)}) = 1
          \/ t = 6 /\ MatchesUncertainIndicator(n)
          \/ t = 7 /\ DomainHinted(call.module_name, HeaderLower(h))
          \/ t = 8}

FirstTier(i) == CHOOSE t \in TiersThatApply(i) : \A u \in TiersThatApply(i) : t <= u

\* what the first tier that applies decides: db_field, confidence, needs_ai
Decision(i) ==
    LET n == HeaderNormalized(HeaderLower(call.headers[i]))
        t == FirstTier(i)
    IN CASE t = 1 -> <<None, 100, FALSE>>
         [] t = 2 -> <<None, 95, FALSE>>
         [] t = 3 -> <<MappingPatternField(call.module_name, n), 95, FALSE>>
         [] t = 4 -> <<None, 80, FALSE>>
         [] t = 5 -> <<None, 70, FALSE>>
         [] t \in {6, 7} -> <<None, 0, TRUE>>
         [] t = 8 -> <<None, 60, FALSE>>

\* C16: classify_columns_generic decides each column by the first tier that
\* applies, in the order skip_columns, universal skip pattern, schema
\* mapping pattern, blank samples, three identical samples, uncertain
\* indicator, domain hint, default: the resolved list holds the decisions of
\* the columns that do not need the oracle, in column order, and the
\* uncertain list the headers of the others
C16_FirstTierDecides ==
    (call # <<>> /\ call.op = "classify" /\ ret # <<>>) =>
        LET decided == SelectSeq(Indices(call.headers), LAMBDA i : ~Decision(i)[3])
            others == SelectSeq(Indices(call.headers), LAMBDA i : Decision(i)[3])
        IN /\ Len(ret[1].resolved) = Len(decided)
           /\ \A k \in DOMAIN decided :
                 /\ ret[1].resolved[k].csv_column = call.headers[decided[k]]
                 /\ ret[1].resolved[k].db_field = Decision(decided[k])[1]
                 /\ ret[1].resolved[k].confidence = Decision(decided[k])[2]
                 /\ ~ret[1].resolved[k].needs_ai
           /\ ret[1].uncertain_headers = [k \in DOMAIN others |-> call.headers[others[k]]]

\* a header with a schema pattern is mapped although its samples are blank,
\* and a blank column with an ambiguous name is discarded at 0.8
C16_Witness ==
    /\ call # <<>> /\ call.op = "classify" /\ ret # <<>>
    /\ call.module_name = "customers"
    /\ call.headers = <<"City", "custom1">>
    /\ \A i \in 1..2 : NonBlank(i) = {}
    /\ ret[1].uncertain_headers = <<>>
    /\ ret[1].resolved[1].db_field = "city" /\ ret[1].resolved[1].confidence = 95
    /\ ret[1].resolved[2].db_field = None /\ ret[1].resolved[2].confidence = 80

\* the positions of a header in the call
PositionsOf(h) == {i \in DOMAIN call.headers : call.headers[i] = h}

\* the tier a header captures as a quantity column, as a price column
QtyTierOf(h) == QtyTier(PairKey(h))
PriceTierOf(h) == PriceTier(PairKey(h))

\* C17: detect_column_pairs returns the pairs in ascending order of tier
\* number, each of a quantity header and a price header of the same tier; no
\* header is in two pairs; the price header of a pair is the first unclaimed
\* match in header order; the claimed set is the set of the headers of the
\* pairs; a quantity header without a price header of its tier is not
\* claimed; a second run returns the same
C17_PairsByTier ==
    (call # <<>> /\ call.op = "detect" /\ ret # <<>>) =>
        LET pairs == ret[1].pairs
            claimed == ret[1].matched_columns
        IN /\ \A k \in DOMAIN pairs :
                 /\ QtyTierOf(pairs[k][1]) # 0
                 /\ QtyTierOf(pairs[k][1]) = PriceTierOf(pairs[k][2])
                 /\ {pairs[k][1], pairs[k][2]} \subseteq Range(call.headers)
           /\ \A k, l \in DOMAIN pairs :
                 k < l => /\ QtyTierOf(pairs[k][1]) <= QtyTierOf(pairs[l][1])
                          /\ {pairs[k][1], pairs[k][2]} \cap {pairs[l][1], pairs[l][2]} = {}
           /\ \A k \in DOMAIN pairs :
                 \A h \in Range(call.headers) :
                    (/\ PriceTierOf(h) = QtyTierOf(pairs[k][1])
                     /\ \E i \in PositionsOf(h) : \A j \in PositionsOf(pairs[k][2]) : i < j)
                        => h \in claimed
           /\ claimed = UNION {{pairs[k][1], pairs[k][2]} : k \in DOMAIN pairs}
           /\ \A h \in Range(call.headers) :
                 (QtyTierOf(h) # 0 /\ \A g \in Range(call.headers) : PriceTierOf(g) # QtyTierOf(h))
                    => h \notin claimed
           /\ \A n \in DOMAIN ret : ret[n] = ret[1]

----------------------------------------------------------------------------
(* Properties of the parts import *)

\* the customers of the tenant of the request with the code, case-insensitively
CustomersWithCode(r, st, code) ==
    {c \in Range(st.customers) :
        c.company_id = r.company_id /\ Lower(c.customer_code) = Lower(code)}

\* row n of the request has a part number and names a customer that the
\* tenant does not have
UnresolvedCustomer(r, st, n) ==
    /\ r.customer_match_mode = "by_column"
    /\ CellOf(r.rows[n], ReverseGet(r.mappings, "part_number")) # ""
    /\ CellOf(r.rows[n], ReverseGet(r.mappings, "customer_code")) # ""
    /\ CustomersWithCode(r, st, CellOf(r.rows[n], ReverseGet(r.mappings, "customer_code"))) = {}

\* C18: in the parts validate a row with a part number and a customer code
\* that matches no customer of the tenant has exactly one conflict, of type
\* customer_not_found, and no csv_duplicate conflict of another row lists it
C18_UnresolvedCustomerIsNotNull ==
    (Validated /\ impl = "parts") =>
        \A n \in DOMAIN req.rows :
            UnresolvedCustomer(req, store, n) =>
                /\ \E k \in DOMAIN vresp.body.conflicts :
                      /\ vresp.body.conflicts[k].row_number = n
                      /\ vresp.body.conflicts[k].conflict_type = "customer_not_found"
                      /\ \A l \in DOMAIN vresp.body.conflicts :
                            vresp.body.conflicts[l].row_number = n => l = k
                /\ \A c \in Range(vresp.body.conflicts) :
                      c.conflict_type = "csv_duplicate" => n \notin Range(c.existing_value)

\* the customer id row n resolves to under the customer mode of the request
ResolvedCustomerId(r, st, n) ==
    LET code == CellOf(r.rows[n], ReverseGet(r.mappings, "customer_code"))
    IN IF r.customer_match_mode = "all_to_one" THEN r.selected_customer_id
       ELSE IF r.customer_match_mode = "by_column" /\ code # ""
       THEN (CHOOSE c \in CustomersWithCode(r, st, code) : TRUE).id
       ELSE None

PartNumberOf(r, n) == CellOf(r.rows[n], ReverseGet(r.mappings, "part_number"))

RowKey(r, st, n) == <<Lower(PartNumberOf(r, n)), ResolvedCustomerId(r, st, n)>>

\* the other rows with a part number that have the key of row n
SameKeyRows(r, st, n) ==
    {m \in DOMAIN r.rows :
        m # n /\ PartNumberOf(r, m) # "" /\ RowKey(r, st, m) = RowKey(r, st, n)}

\* the parts of the tenant that have the key of row n
SameKeyParts(r, st, n) ==
    {p \in Range(st.parts) :
        /\ p.company_id = r.company_id
        /\ <<Lower(p.part_number), p.customer_id>> = RowKey(r, st, n)}

ConflictsOfRow(response, n) ==
    {k \in DOMAIN response.body.conflicts : response.body.conflicts[k].row_number = n}

\* C19: for parts, when every customer code of the file resolves, a row with
\* a part number is a csv_duplicate exactly when another row has its key
\* (lower-cased part number, resolved customer id), and the conflict lists
\* those rows; otherwise it is a duplicate_part_number exactly when a part
\* of the tenant has its key; this in the parts route and in the generic
\* validate with the parts configuration, under each customer mode
C19_CompositeKey ==
    (call # <<>> /\ call.op = "validate") =>
        \A x \in DOMAIN ret :
            (/\ ret[x].status = 200
             /\ \A n \in DOMAIN call.req.rows : ~UnresolvedCustomer(call.req, call.store, n))
            => \A n \in DOMAIN call.req.rows :
                  PartNumberOf(call.req, n) # "" =>
                     LET mine == ConflictsOfRow(ret[x], n)
                         rows == SameKeyRows(call.req, call.store, n)
                         parts == SameKeyParts(call.req, call.store, n)
                     IN IF rows # {}
                        THEN \E k \in mine :
                                /\ mine = {k}
                                /\ ret[x].body.conflicts[k].conflict_type = "csv_duplicate"
                                /\ Range(ret[x].body.conflicts[k].existing_value) = rows
                        ELSE IF parts # {}
                        THEN \E k \in mine :
                                /\ mine = {k}
                                /\ ret[x].body.conflicts[k].conflict_type
                                      = "duplicate_part_number"
                                /\ \E p \in parts :
                                      ret[x].body.conflicts[k].existing_part_id = p.id
                        ELSE mine = {}

\* the pairs of the call whose two cells are non-blank and parse, with a
\* quantity above 0 and a price that is not negative
Qualifies(k) ==
    LET qty_str == Strip(RowGet(call.row, call.pricing_columns[k].qty_column))
        price_str == Strip(RowGet(call.row, call.pricing_columns[k].price_column))
    IN /\ qty_str # "" /\ price_str # ""
       /\ FloatParses(qty_str) /\ FloatParses(price_str)
       /\ IntOfFloat(qty_str) > 0 /\ FloatCents(price_str) >= 0

TierOf(k) ==
    [qty |-> IntOfFloat(Strip(RowGet(call.row, call.pricing_columns[k].qty_column))),
     price |-> FloatCents(Strip(RowGet(call.row, call.pricing_columns[k].price_column)))]

\* C20: the pricing of a part record holds one tier for each qualifying
\* pair of the row, and nothing else, in ascending order of quantity; a
\* pair that does not qualify fails nothing; the generic execute with the
\* parts configuration gives the row the pricing the parts route gives it
C20_PricingFromOwnRow ==
    (call # <<>> /\ call.op = "pricing" /\ DOMAIN ret = {"route", "generic"}) =>
        /\ DOMAIN ret.route = {"pricing"}
        /\ \A t \in {TierOf(k) : k \in {j \in DOMAIN call.pricing_columns : Qualifies(j)}}
                 \cup Range(ret.route.pricing) :
              Cardinality({k \in DOMAIN ret.route.pricing : ret.route.pricing[k] = t})
                 = Cardinality({k \in DOMAIN call.pricing_columns :
                                   Qualifies(k) /\ TierOf(k) = t})
        /\ \A k, l \in DOMAIN ret.route.pricing :
              k < l => ret.route.pricing[k].qty <= ret.route.pricing[l].qty
        /\ ret.generic = ret.route

----------------------------------------------------------------------------
(* Properties of the validation errors *)

\* C21: every ValidationError of a validate is an entry of the list of
\* validation errors of the response and its error_type is "missing_" or "invalid_" followed by
\* exactly the value of its own field attribute
C21_ErrorTypeNamesField ==
    (pc = "validated" /\ vresp.status = 200) =>
        /\ "validation_errors" \in DOMAIN vresp.body
        /\ \A k \in DOMAIN vresp.body.validation_errors :
              vresp.body.validation_errors[k].error_type
                 \in {"missing_" \o vresp.body.validation_errors[k].field,
                      "invalid_" \o vresp.body.validation_errors[k].field}

----------------------------------------------------------------------------
(* Properties of the oracle behind analyze *)

\* C22: whichever provider the configuration selects, an analyze call that
\* has obtained a provider invokes its suggest_column_mappings with
\* arguments the provider accepts: the call is made, and the choice of the
\* provider does not fail the request before the oracle is asked
C22_ProviderAcceptsArguments ==
    (env # <<>> /\ acount > 0 /\ trace.provider /\ GetProvider(env).ok) =>
        /\ trace.oracle # <<>>
        /\ aresp.status = 500 => trace.oracle[1].outcome \in {"transport", "bad_confidence"}

----------------------------------------------------------------------------
(* Properties of the two outputs of the classifier *)

Classified == call # <<>> /\ call.op = "classify" /\ ret # <<>>

\* the entries of the resolved list, the places of the uncertain list and
\* the columns of the call that carry the header h
ResolvedFor(h) == {k \in DOMAIN ret[1].resolved : ret[1].resolved[k].csv_column = h}
UncertainFor(h) == {k \in DOMAIN ret[1].uncertain_headers : ret[1].uncertain_headers[k] = h}

\* every resolved entry does not need the oracle, and is a discard or has
\* the field whose pattern its header matches
ResolvedWellFormed ==
    \A k \in DOMAIN ret[1].resolved :
        /\ ~ret[1].resolved[k].needs_ai
        /\ \/ ret[1].resolved[k].db_field = None
           \/ ret[1].resolved[k].db_field
                 = MappingPatternField(call.module_name,
                       HeaderNormalized(HeaderLower(ret[1].resolved[k].csv_column)))

\* C23 as stated: every header of the call has exactly one classification in
\* the resolved list and is not in the uncertain list, or is in the uncertain
\* list and has no classification in the resolved list; the sizes of the two
\* outputs add up to the number of headers
C23_EveryHeaderInOneOutput ==
    Classified =>
        /\ \A h \in Range(call.headers) :
              \/ Cardinality(ResolvedFor(h)) = 1 /\ UncertainFor(h) = {}
              \/ ResolvedFor(h) = {} /\ UncertainFor(h) # {}
        /\ Len(ret[1].resolved) + Len(ret[1].uncertain_headers) = Len(call.headers)
        /\ ResolvedWellFormed

\* C23 amended: every column of the call is in exactly one output: for each
\* header the classifications in the resolved list and the places in the
\* uncertain list are together as many as the columns that carry it, nothing
\* else is in the outputs, and a header carried by one column is in exactly
\* one output
C23_EveryColumnInOneOutput ==
    Classified =>
        /\ \A h \in Range(call.headers) :
              /\ Cardinality(ResolvedFor(h)) + Cardinality(UncertainFor(h))
                    = Cardinality(PositionsOf(h))
              /\ Cardinality(PositionsOf(h)) = 1 =>
                    (ResolvedFor(h) = {} \/ UncertainFor(h) = {})
        /\ \A k \in DOMAIN ret[1].resolved :
              ret[1].resolved[k].csv_column \in Range(call.headers)
        /\ Range(ret[1].uncertain_headers) \subseteq Range(call.headers)
        /\ Len(ret[1].resolved) + Len(ret[1].uncertain_headers) = Len(call.headers)
        /\ ResolvedWellFormed

\* two columns with the same header, one blank and one not: the header is
\* discarded in the resolved list and sent to the oracle
C23_Witness ==
    /\ Classified
    /\ call.headers = <<"custom1", "custom1">>
    /\ Len(ret[1].resolved) = 1 /\ ret[1].resolved[1].csv_column = "custom1"
    /\ ret[1].uncertain_headers = <<"custom1">>

----------------------------------------------------------------------------
(* Properties of the rate limiter under concurrent calls *)

InUpdate(c) == threads[c].pc \in {"prune", "store", "compare", "append"}

\* C24: whatever the interleaving of the steps of concurrent check calls for
\* one key, the calls admitted with a timestamp inside one window are at
\* most max_requests; a thread is in the prune, compare and append steps
\* only while it holds the mutex, and it holds the mutex nowhere else, not
\* during the oracle call either
C24_ConcurrentChecksBounded ==
    threads # <<>> =>
        /\ \A k \in DOMAIN admitted[SharedKey] :
              Cardinality({j \in DOMAIN admitted[SharedKey] :
                              /\ admitted[SharedKey][j] <= admitted[SharedKey][k]
                              /\ admitted[SharedKey][k] - admitted[SharedKey][j]
                                    < WindowSeconds})
                 <= MaxRequests
        /\ \A c \in Callers : InUpdate(c) <=> lock = <<c>>

----------------------------------------------------------------------------
(* Properties of the groups the resources import creates *)

\* the rows of the request that the validation neither rejected nor flagged
PassedRows ==
    {n \in DOMAIN req.rows :
        /\ ~Errored(n)
        /\ \A c \in Range(vresp.body.conflicts) : c.row_number # n}

GroupOf(n) == CellOf(req.rows[n], ReverseGet(req.mappings, "resource_group"))

\* the names of the groups of the tenant, lower-cased
TenantGroupNames ==
    {Lower(g.name) : g \in {x \in Range(store.resource_groups) :
                               x.company_id = req.company_id}}

\* C25: groups_to_create of the resources validate holds a group value
\* exactly when create_groups is set, the value is on a row that passed
\* every check and no group of the tenant has it case-insensitively; the
\* list is sorted and no two of its names are equal case-insensitively
C25_GroupsToCreate ==
    (Validated /\ impl = "resources") =>
        /\ Range(vresp.body.groups_to_create)
              = {GroupOf(n) : n \in {j \in PassedRows :
                                        /\ req.create_groups
                                        /\ GroupOf(j) # ""
                                        /\ Lower(GroupOf(j)) \notin TenantGroupNames}}
        /\ \A k, l \in DOMAIN vresp.body.groups_to_create :
              k < l =>
                 /\ StrRank(vresp.body.groups_to_create[k])
                       < StrRank(vresp.body.groups_to_create[l])
                 /\ Lower(vresp.body.groups_to_create[k])
                       # Lower(vresp.body.groups_to_create[l])

----------------------------------------------------------------------------
(* Properties of the records the generic execute builds *)

\* the stripped cell of the column mapped to the field, "" without one
MappedValue(r, row, field) ==
    LET csv_col == ReverseGetNonEmpty(r.mappings, field)
    IN IF csv_col = None THEN "" ELSE Strip(RowGet(row, csv_col))

\* the configured default of the field, as a sequence of at most one value
DefaultOf(config, field) ==
    LET found == SelectSeq(config.default_values, LAMBDA d : d[1] = field)
    IN [k \in 1..Len(found) |-> found[k][2]]

\* the rows of the call that validate neither reports in a conflict nor in
\* a validation error
NonSkippedRows(c) ==
    LET v == GenericValidate(c.config, c.req, c.store)
    IN SelectSeq(Indices(c.req.rows),
                 LAMBDA n : /\ \A k \in DOMAIN v.conflicts : v.conflicts[k].row_number # n
                            /\ \A k \in DOMAIN v.validation_errors :
                                  v.validation_errors[k].row_number # n)

\* the record is the one the four steps give for the row
RecordBuiltInOrder(c, record, row) ==
    /\ c.config.company_id_field \in DOMAIN record
    /\ record[c.config.company_id_field] = c.req.company_id
    /\ \A k \in DOMAIN c.config.schema :
          LET d == c.config.schema[k]
              value == MappedValue(c.req, row, d.name)
              default == DefaultOf(c.config, d.name)
          IN IF value # "" /\ d.type # "number"
             THEN d.name \in DOMAIN record /\ record[d.name] = value
             ELSE IF value # "" /\ FloatParses(value)
             THEN d.name \in DOMAIN record /\ record[d.name] = FloatCents(value)
             ELSE IF default # <<>>
             THEN d.name \in DOMAIN record /\ record[d.name] = default[1]
             ELSE d.name \notin DOMAIN record
    /\ c.config.pre_insert_transform =>
          /\ "pricing" \in DOMAIN record
          /\ record.pricing = IF c.req.kwargs.pricing_pairs = <<>> \/ c.req.kwargs.row_data = <<>>
                              THEN <<>>
                              ELSE TransformPricingToJsonb(c.req.kwargs.row_data[1],
                                                           c.req.kwargs.pricing_pairs)
    /\ DOMAIN record \subseteq
          {c.config.company_id_field}
             \cup {c.config.schema[k].name : k \in DOMAIN c.config.schema}
             \cup (IF c.config.pre_insert_transform THEN {"pricing"} ELSE {})

\* C26: every row the generic execute does not skip gets one record, built
\* from the tenant id, then the mapped non-blank values (a number parsed, or
\* left out alone when it does not parse), then the defaults of the fields
\* still absent, then pre_insert_transform
C26_RecordBuiltInOrder ==
    (call # <<>> /\ call.op = "execute" /\ "generic" \in DOMAIN ret
        /\ ret.generic.response.status = 200) =>
        \A kept \in {NonSkippedRows(call)} :
            IF kept = <<>> THEN ret.generic.writes = <<>>
            ELSE /\ Len(ret.generic.writes) = 1
                 /\ Len(ret.generic.writes[1].records) = Len(kept)
                 /\ \A k \in DOMAIN kept :
                       RecordBuiltInOrder(call, ret.generic.writes[1].records[k],
                                          call.req.rows[kept[k]])

\* an execute that inserted one record without its unparsable cost and one
\* with the cost parsed, each with the pricing the transform added
C26_Witness ==
    /\ call # <<>> /\ call.op = "execute" /\ "generic" \in DOMAIN ret
    /\ ret.generic.response.status = 200
    /\ call.config.module_name = "parts"
    /\ call.req.kwargs.row_data = <<FirstRow>>
    /\ Len(ret.generic.writes) = 1
    /\ Len(ret.generic.writes[1].records) = 2
    /\ Len(call.req.rows) = 2
    /\ Strip(call.req.rows[1]["Cost"]) = "abc"
    /\ "material_cost" \notin DOMAIN ret.generic.writes[1].records[1]
    /\ "material_cost" \in DOMAIN ret.generic.writes[1].records[2]
    /\ Len(ret.generic.writes[1].records[1].pricing) = 1

----------------------------------------------------------------------------
(* Properties of the conflict gate on a file with errors and no conflict *)

\* the row numbers the validation reports an error for
ErroredRowNumbers(v) ==
    {v.validation_errors[k].row_number : k \in DOMAIN v.validation_errors}

\* C27: the conflict gate looks at the conflicts alone: when the validation
\* execute runs reports validation errors and no conflict, an execute without
\* skip_conflicts is not refused; it issues one insert with a record for
\* each row without an error (none when every row has one) and, unless the
\* store fails, answers success with skipped_count = the number of errored
\* rows and an empty errors list.
C27_ErrorsDoNotCloseTheGate ==
    [][(pc' = "done" /\ ~req'.skip_conflicts) =>
       \A fresh \in {ValidateOf(impl, req', store)} :
         (/\ fresh.status = 200
          /\ fresh.body.conflicts = <<>>
          /\ fresh.body.validation_errors # <<>>)
         => LET errored == ErroredRowNumbers(fresh.body)
                remaining == Len(req'.rows) - Cardinality(errored)
                inserts == SelectSeq(writes',
                              LAMBDA w : w.table = (IF impl = "generic" THEN "customers"
                                                    ELSE impl))
            IN /\ eresp' # HttpError(400, ConflictsDetail)
               /\ Len(inserts) = (IF remaining = 0 THEN 0 ELSE 1)
               /\ \A w \in Range(inserts) : Len(w.records) = remaining
               /\ (\A w \in Range(inserts) : w.outcome.kind # "raise")
                     => /\ eresp'.status = 200
                        /\ eresp'.body.success
                        /\ eresp'.body.skipped_count = Cardinality(errored)
                        /\ eresp'.body.errors = <<>>
                        /\ (\A w \in Range(inserts) : w.outcome.kind = "ok")
                              => eresp'.body.imported_count = remaining]_vars

\* an execute without skip_conflicts that left out one row with an error
\* and inserted the other
C27_Witness ==
    /\ pc = "done"
    /\ impl = "generic"
    /\ ~req.skip_conflicts
    /\ vresp.status = 200
    /\ vresp.body.conflicts = <<>>
    /\ Len(vresp.body.validation_errors) = 1
    /\ Len(req.rows) = 2
    /\ eresp.status = 200
    /\ eresp.body.skipped_count = 1
    /\ eresp.body.imported_count = 1
    /\ Len(writes) = 1
    /\ Len(writes[1].records) = 1
    /\ writes[1].outcome.kind = "ok"

----------------------------------------------------------------------------
(* Properties of the two kinds of write of the resources execute *)

\* the stripped group cell of a row
GroupCell(r, row) ==
    LET csv_column == ReverseGet(r.mappings, "resource_group")
    IN IF csv_column = None THEN "" ELSE Strip(RowGet(row, csv_column))

\* the group inserts of a call that succeeded, as the records they stored
GroupsStored(calls, ids) ==
    LET done == SelectSeq(calls, LAMBDA w : w.table = "resource_groups"
                                            /\ w.outcome.kind # "raise")
    IN [k \in 1..Len(done) |-> done[k].records[1] @@ ("id" :> NewIds[ids + k - 1])]

\* C28: the resources execute writes in two steps that are not undone
\* together: every group insert comes before the insert of the records; a
\* group insert that fails aborts nothing, and the rows that name the failed
\* group are inserted without a group id; when the insert of the records
\* fails, the groups created before it stay in the store and no resource of
\* the file does.
C28_GroupsThenRecords ==
    [][(pc' = "done" /\ impl = "resources") =>
       \A fresh \in {ResourcesValidate(req', store)} :
       \A kept \in {RowsKept(req'.rows, SkipRowNumbers(fresh))} :
         (req'.skip_conflicts \/ ~fresh.has_conflicts) =>
           LET inserts == SelectSeq(writes', LAMBDA w : w.table = "resources")
           IN /\ \A i, j \in DOMAIN writes' :
                    (writes'[i].table = "resource_groups" /\ writes'[j].table = "resources")
                    => i < j
              /\ Len(inserts) = (IF kept = <<>> THEN 0 ELSE 1)
              /\ \A g \in DOMAIN writes', w \in Range(inserts), k \in DOMAIN kept :
                    (/\ writes'[g].table = "resource_groups"
                     /\ writes'[g].outcome.kind = "raise"
                     /\ GroupCell(req', req'.rows[kept[k]]) = writes'[g].records[1].name)
                    => "resource_group_id" \notin DOMAIN w.records[k]
              /\ store'.resource_groups
                    = store.resource_groups \o GroupsStored(writes', nextId)
              /\ (\E w \in Range(inserts) : w.outcome.kind = "raise")
                    => /\ eresp'.status \in {400, 500}
                       /\ store'.resources = store.resources]_vars

----------------------------------------------------------------------------
(* Properties of the analyze cache *)

\* the two header lists hold the same names, each as often
SameNames(h1, h2) ==
    /\ Len(h1) = Len(h2)
    /\ \A x \in Range(h1) \cup Range(h2) :
          Cardinality({i \in DOMAIN h1 : h1[i] = x})
             = Cardinality({i \in DOMAIN h2 : h2[i] = x})

\* the readable files a request of the same tenant with the same header
\* names, in whatever order and with whatever samples, has left in the
\* directory of the handler
ReadableFor(e, files, r) ==
    {f \in files :
        /\ f.dir = AnalyzeDir(e)
        /\ f.response # <<>>
        /\ \E r0 \in CacheRequests(e.module_name) :
              /\ r0.company_id = r.company_id
              /\ SameNames(r0.headers, r.headers)
              /\ f.key = AnalyzeKey(e, r0)}

\* the files of the directory of the handler that cannot be read
UnreadableFiles(e, files) ==
    {f \in files : f.dir = AnalyzeDir(e) /\ f.response = <<>>}

\* C29: the cache entry of an analyze call is found by tenant, module and
\* header names alone: a call whose tenant and names, in any order and with
\* any samples, have a readable entry returns that entry and does nothing
\* else, whether or not the oracle can be reached; an entry is written only
\* with the successful response of the call that writes it; a write that
\* fails leaves that response a success, and a call that finds only an
\* unreadable entry goes on as on a miss.
C29_CacheByTenantModuleNames ==
    [][AnalyzeCalled =>
        /\ env.cache_enabled =>
              \A f \in ReadableFor(env, cache, areq') :
                 /\ aresp' = HttpOk(f.response)
                 /\ trace' = NothingDone
                 /\ cache' = cache
        /\ ~env.cache_enabled => cache' = {}
        /\ \A f \in cache' \ cache :
              /\ trace'.saved
              /\ aresp'.status = 200
              /\ f.dir = AnalyzeDir(env)
              /\ f.key = AnalyzeKey(env, areq')
              /\ f.response \in {<<>>, aresp'.body}
        /\ trace'.saved => aresp'.status = 200
        /\ (env.cache_enabled /\ ReadableFor(env, cache, areq') = {})
              => /\ trace'.limiter
                 /\ aresp'.status \in {200, 429, 500}
                 /\ aresp'.status = 200 => trace'.saved]_vars

\* the customers route has answered a file with blank samples in its last
\* column with the response stored for the same two names in the other
\* order
C29_Witness ==
    /\ acount = 2
    /\ env.handler = "customers"
    /\ areq = AnalyzeRequest("t1", <<"Color", "custom1">>, "last_blank")
    /\ trace = NothingDone
    /\ aresp.status = 200
    /\ aresp.body.mappings[1].csv_column = "custom1"
    /\ UnreadableFiles(env, cache) = {}

----------------------------------------------------------------------------
(* Properties of the generic service when the store cannot be read *)

\* the store without the records of the tenant
WithoutTenant(st, r) ==
    [t \in DOMAIN st |-> SelectSeq(st[t], LAMBDA rec : rec.company_id # r.company_id)]

\* the rows whose value of a unique field a record of the tenant holds
StoreDuplicateRows(r, st) ==
    {n \in DOMAIN r.rows :
        \E k \in DOMAIN CUSTOMERS_CONFIG.unique_fields, rec \in Range(st.customers) :
            LET field == CUSTOMERS_CONFIG.unique_fields[k]
                value == Lower(Strip(RowGet(r.rows[n], ReverseGet(r.mappings, field))))
            IN /\ rec.company_id = r.company_id
               /\ value # ""
               /\ Lower(rec[field]) = value}

\* the conflicts of a validation by type
ConflictTypes(v) == {v.conflicts[k].conflict_type : k \in DOMAIN v.conflicts}

\* validate answers 200 without a duplicate_<field> conflict when the store
\* cannot be read
UnreadValidateSucceeds ==
    pc' = "validated_unread" =>
        /\ vresp'.status = 200
        /\ ConflictTypes(vresp'.body) \subseteq {"csv_duplicate"}
        /\ vresp'.body = GenericValidate(CUSTOMERS_CONFIG, req, WithoutTenant(store, req))

\* C30 as stated: when validate could not read the store it answers as if
\* the tenant had no record, without a duplicate_<field> conflict, and the
\* execute that follows passes the conflict gate and sends every row that
\* duplicates a record of the store to the insert.
C30_UnreadValidateOpensGate ==
    [][/\ UnreadValidateSucceeds
       /\ (pc = "validated_unread" /\ pc' \in {"done", "done_unread"}) =>
             /\ eresp' # HttpError(400, ConflictsDetail)
             /\ \A n \in StoreDuplicateRows(req', store) :
                   (\A e \in Range(vresp.body.validation_errors) : e.row_number # n)
                   => /\ Len(writes') = 1
                      /\ \E rec \in Range(writes'[1].records) :
                            rec.customer_code = Strip(req'.rows[n]["Code"])]_vars

\* C30: a validation that cannot read the store, in validate or inside
\* execute, answers as if the tenant had no record: it reports the errors
\* and the csv_duplicate conflicts of the file and no duplicate_<field>
\* conflict.  An execute whose own reading fails is refused at the gate
\* only for a csv_duplicate without skip_conflicts; otherwise it sends a
\* record for every row without error or csv_duplicate to the insert, the
\* rows that duplicate the store included, and only an insert that raises
\* on the constraint answers 400 and adds nothing.  An execute whose own
\* reading succeeds finds the store duplicate itself: it is refused at the
\* gate without skip_conflicts and leaves the row out with it.
C30_UnreadStoreIsEmptyStore ==
    [][/\ UnreadValidateSucceeds
       /\ pc' = "done_unread" =>
             \A blind \in {GenericValidate(CUSTOMERS_CONFIG, req', WithoutTenant(store, req'))} :
                /\ ConflictTypes(blind) \subseteq {"csv_duplicate"}
                /\ (eresp' = HttpError(400, ConflictsDetail))
                      <=> (~req'.skip_conflicts /\ blind.conflicts # <<>>)
                /\ (eresp' # HttpError(400, ConflictsDetail) /\ blind.valid_rows_count > 0)
                      => /\ Len(writes') = 1
                         /\ Len(writes'[1].records) = blind.valid_rows_count
                         /\ (writes'[1].outcome.kind = "raise"
                                => eresp'.status \in {400, 500} /\ store' = store)
                         /\ (/\ writes'[1].outcome.kind = "raise"
                             /\ Contains(writes'[1].outcome.text, "23505"))
                               => eresp' = HttpError(400,
                                     "Import failed: A record with this identifier already exists.")
       /\ (pc' = "done" /\ StoreDuplicateRows(req', store) # {}) =>
             IF req'.skip_conflicts
             THEN (IF writes' = <<>> THEN 0 ELSE Len(writes'[1].records))
                     <= Len(req'.rows) - Cardinality(StoreDuplicateRows(req', store))
             ELSE /\ eresp' = HttpError(400, ConflictsDetail)
                  /\ writes' = <<>>]_vars

\* validate and execute could not read the store, the row with the name of
\* a record of the tenant went to the insert, and the constraint of the
\* store refused it
C30_Witness ==
    /\ pc = "done_unread"
    /\ ~req.skip_conflicts
    /\ vresp.status = 200
    /\ vresp.body.conflicts = <<>>
    /\ StoreDuplicateRows(req, store) # {}
    /\ Len(writes) = 1
    /\ Len(writes[1].records) = Len(req.rows)
    /\ writes[1].outcome.kind = "raise"
    /\ eresp = HttpError(400, "Import failed: A record with this identifier already exists.")

====
